---- MODULE Spec2Model ----
(***************************************************************************)
(* hkreduce: CSR adjacency matrix, neighbour iterator, the DRG and DRGEP   *)
(* reducers and the host bridge (add_row / finalize / run_reducing).       *)
(*                                                                         *)
(* C++ arrays are 0-based; they are kept as TLA+ sequences and read with   *)
(* At(s, i) == s[i + 1].  A coefficient v stands for the double v / Unit;  *)
(* every value used is a power of two times 1/Unit, so products are exact  *)
(* both here and in IEEE-754 arithmetic.                                   *)
(***************************************************************************)
EXTENDS Integers, Sequences, FiniteSets, TLC

\* ---------------------------------------------------------------- bounds
\* number of vertices of the matrix (the `size` given to __init__)
N == 3
\* largest number of stored entries of a matrix
MaxEdges == 2
\* largest number of stored entries of a matrix that run_reducing is called on
MaxRunEdges == 1
\* section size of the sectioned collections that hold col and coef (the
\* sectionSize constructor argument), scaled down so that the stored entries
\* cross a section boundary
SectionSize == 1
\* largest number of stored entries CSRAdjacencyMatrix::setCoef may reach
MaxStored == 2
\* bits of one BoolSection word (sizeof(size_t) * 8), scaled down so that a
\* bitmap of a few bits spans several sections
BITS_COUNT_IN_SECTION == 2
\* largest size of a bitmap used on its own
MaxBits == 4
\* largest section size and largest size of a sectioned collection used on
\* its own
MaxSectionSize == 2
MaxElements == 3
\* largest maxStackSize given to the iterator arena, the slots the arena adds
\* to it (10 in the source, scaled down), and the largest request in bytes
MaxStackSize == 1
ExtraSlots == 1
MaxIteratorSize == 2
\* sizeof(_CSRNeighboursIterator) in allocation units, in the DFS of DRG
IteratorSize == 1
\* largest number of edges of the matrix of one DRGEP pass followed on its own
MaxPassEdges == 4
\* largest number of finalize() calls on one matrix object
MaxFinalize == 2
\* largest number of run_reducing() calls on one matrix object
MaxRuns == 1
\* longest list of sources drawn freely (the all-vertices list is added)
MaxSources == 1

\* fixed-point unit: the double 1.0
Unit == 2 ^ N
Half == Unit \div 2
CoefValues == {0, Half, Unit}
Thresholds == {0, (3 * Unit) \div 8, (3 * Unit) \div 4}

\* vertex indices the host may pass; N is the first out-of-range index
Indices == 0 .. N
\* values an uninitialised size_t field may hold; N stands for every value
\* that is not a valid row index
Garbage == 0 .. N

\* ---------------------------------------------------------------- helpers
At(s, i) == s[i + 1]
Upd(s, i, v) == [s EXCEPT ![i + 1] = v]
Mul(a, b) == (a * b) \div Unit

SeqsUpTo(S, n) == UNION {[1 .. k -> S] : k \in 0 .. n}

\* the list of all vertices, and the source lists the reducers are run on
AllVertices == [k \in 1 .. N |-> k - 1]
SourceLists == SeqsUpTo(Indices, MaxSources) \cup {AllVertices}

\* ------------------------------------------------ IndexableCollection reads
\* operator[] of ArrayCollection / SectionedCollection: bounds-checked read
InRange(s, idx) == idx < Len(s)

\* ------------------------------------------------------ neighbour iterator
\* _CSRNeighboursIterator: fields idx, from and (base class) stopped.
\* `inner` tells whether the NeighboursIterator wrapper holds an inner
\* iterator at all.
NullIterator == [inner |-> FALSE, idx |-> 0, from |-> 0, stopped |-> FALSE]

\* Result of an operation that may throw: err names the exception.
Ok(it) == [err |-> "none", it |-> it]
Thrown(e) == [err |-> e, it |-> NullIterator]

\* Constructor _CSRNeighboursIterator(matrix, from, to).  The member `from`
\* is never assigned: it keeps the indeterminate value g.
RECURSIVE CtorScan(_, _, _, _)
CtorScan(cs, idx, stop, to) ==
    IF idx >= stop THEN [err |-> "none", found |-> FALSE, idx |-> stop]
    ELSE IF ~InRange(cs, idx) THEN [err |-> "out_of_range", found |-> FALSE, idx |-> idx]
    ELSE IF to <= At(cs, idx) THEN [err |-> "none", found |-> TRUE, idx |-> idx]
    ELSE CtorScan(cs, idx + 1, stop, to)

CSRNeighboursIterator(rs, cs, from, to, g) ==
    LET start == IF from # 0 THEN At(rs, from - 1) ELSE 0
        stop == At(rs, from)
        scan == CtorScan(cs, start, stop, to)
    IN  IF scan.err # "none" THEN Thrown(scan.err)
        ELSE IF scan.found
        THEN Ok([inner |-> TRUE, idx |-> scan.idx, from |-> g, stopped |-> FALSE])
        ELSE Ok([inner |-> TRUE, idx |-> At(rs, from), from |-> g, stopped |-> TRUE])

\* CSRAdjacencyMatrix::getNeighboursIterator
getNeighboursIterator(rs, cs, from, to, g) ==
    IF from >= N \/ to >= N THEN Thrown("out_of_range")
    ELSE CSRNeighboursIterator(rs, cs, from, to, g)

\* CSRAdjacencyMatrix::replaceNeighboursIterator: both branches build a new
\* inner iterator state; the copy assignment copies the indeterminate from.
replaceNeighboursIterator(rs, cs, from, to, toReplace, g) ==
    IF from >= N \/ to >= N THEN Thrown("out_of_range")
    ELSE IF ~toReplace.inner THEN getNeighboursIterator(rs, cs, from, to, g)
    ELSE CSRNeighboursIterator(rs, cs, from, to, g)

\* _CSRNeighboursIterator::getTo / getCoef
getTo(cs, it) ==
    IF InRange(cs, it.idx) THEN [err |-> "none", val |-> At(cs, it.idx)]
    ELSE [err |-> "out_of_range", val |-> 0]
getCoef(cf, it) ==
    IF InRange(cf, it.idx) THEN [err |-> "none", val |-> At(cf, it.idx)]
    ELSE [err |-> "out_of_range", val |-> 0]

\* _CSRNeighboursIterator::setCoef
setCoef(cf, it, coef) ==
    IF ~InRange(cf, it.idx) THEN [err |-> "out_of_range", old |-> 0, coefs |-> cf, it |-> it]
    ELSE [err |-> "none", old |-> At(cf, it.idx), coefs |-> Upd(cf, it.idx, coef),
          it |-> IF coef = 0 THEN [it EXCEPT !.stopped = TRUE] ELSE it]

\* the while (++idx < stop) loop of operator++
RECURSIVE IncScan(_, _, _)
IncScan(cf, idx, stop) ==
    IF idx + 1 >= stop THEN [err |-> "none", found |-> FALSE, idx |-> idx + 1]
    ELSE IF ~InRange(cf, idx + 1) THEN [err |-> "out_of_range", found |-> FALSE, idx |-> idx + 1]
    ELSE IF At(cf, idx + 1) # 0 THEN [err |-> "none", found |-> TRUE, idx |-> idx + 1]
    ELSE IncScan(cf, idx + 1, stop)

\* _CSRNeighboursIterator::operator++
Increment(rs, cf, it) ==
    IF ~InRange(rs, it.from) THEN Thrown("out_of_range")
    ELSE LET stop == At(rs, it.from)
             start == IF it.from # 0 THEN At(rs, it.from - 1) ELSE 0
         IN  IF it.idx >= stop THEN Ok(it)
             ELSE IF it.idx = start /\ it.stopped /\ ~InRange(cf, it.idx)
             THEN Thrown("out_of_range")
             ELSE IF it.idx = start /\ it.stopped /\ At(cf, it.idx) # 0
             THEN Ok([it EXCEPT !.stopped = FALSE])
             ELSE LET scan == IncScan(cf, it.idx, stop)
                  IN  IF scan.err # "none" THEN Thrown(scan.err)
                      ELSE Ok([it EXCEPT !.idx = scan.idx, !.stopped = ~scan.found])

\* the while (idx > start) loop of operator--
RECURSIVE DecScan(_, _, _)
DecScan(cf, idx, start) ==
    IF ~(idx > start) THEN [err |-> "none", found |-> FALSE, idx |-> idx]
    ELSE IF ~InRange(cf, idx - 1) THEN [err |-> "out_of_range", found |-> FALSE, idx |-> idx - 1]
    ELSE IF At(cf, idx - 1) # 0 THEN [err |-> "none", found |-> TRUE, idx |-> idx - 1]
    ELSE DecScan(cf, idx - 1, start)

\* _CSRNeighboursIterator::operator--
Decrement(rs, cf, it) ==
    IF it.from # 0 /\ ~InRange(rs, it.from - 1) THEN Thrown("out_of_range")
    ELSE LET start == IF it.from # 0 THEN At(rs, it.from - 1) ELSE 0
             scan == DecScan(cf, it.idx, start)
         IN  IF scan.err # "none" THEN Thrown(scan.err)
             ELSE Ok([it EXCEPT !.idx = scan.idx, !.stopped = ~scan.found])

\* ------------------------------------------------------------------ state
VARIABLES
    \* CSRAdjacencyMatrixObject and its matrix
    nextRowIdx, finalized, rows, cols, coefs,
    \* the call in progress and what it gave back to the host
    pc, caller, pyErr, retval,
    \* arguments of the reducer run
    method, reducer, threshold, sources,
    \* locals of DRG::run / DRGEP::run
    i, from, iterator, achievables, stack, orderedQueue, pathsLengths, result,
    exc,
    \* run_reducing: bitmap returned by the reducer and the array built from it
    resultBitmap, resultArray, outOfArrayWrites,
    \* bookkeeping: calls made so far, matrix at the start of the run, and
    \* the outcome of the previous run on the same matrix
    finalizeCalls, runs, coefs0, previous,
    \* the rows add_row accepted so far
    dense,
    \* a collection (or the iterator arena) used on its own, the plain list
    \* (or set of live allocations) it is compared with, and what the most
    \* recent call on it gave back
    container, reference, returned

matrixVars == <<nextRowIdx, finalized, rows, cols, coefs>>
callVars == <<pc, caller, pyErr, retval>>
argVars == <<method, reducer, threshold, sources>>
drgVars == <<achievables, stack>>
drgepVars == <<orderedQueue, pathsLengths, result>>
outVars == <<resultBitmap, resultArray, outOfArrayWrites>>
auxVars == <<finalizeCalls, runs, coefs0, previous>>
collectionVars == <<container, reference, returned>>
vars == <<matrixVars, callVars, argVars, i, from, iterator, drgVars, drgepVars,
          exc, outVars, auxVars, dense, collectionVars>>

AllFalse == [k \in 1 .. N |-> FALSE]
AllZero == [k \in 1 .. N |-> 0]
NoPrevious == [done |-> FALSE, threshold |-> 0, bitmap |-> AllFalse]
NotAdded == [r \in 0 .. N - 1 |-> <<>>]
\* no stand-alone collection is in use
NoCollection ==
    /\ container = <<>>
    /\ reference = <<>>
    /\ returned = [err |-> "none", val |-> 0]

\* --------------------------------------------------------------------- DRG
\* the loop zeroing the entry under the cursor whatever its coefficient
removeEdgesLoop_all(rs, cf, it, thr) ==
    IF it.stopped \/ ~InRange(cf, it.idx) THEN [err |-> "none", coefs |-> cf, it |-> it]
    ELSE [err |-> "none", coefs |-> Upd(cf, it.idx, 0), it |-> [it EXCEPT !.stopped = TRUE]]

\* the inner for loop of DRG::removeEdges over one row
RECURSIVE removeEdgesLoop(_, _, _, _)
removeEdgesLoop(rs, cf, it, thr) ==
    IF it.stopped THEN [err |-> "none", coefs |-> cf, it |-> it]
    ELSE LET c == getCoef(cf, it)
         IN  IF c.err # "none" THEN [err |-> c.err, coefs |-> cf, it |-> it]
             ELSE LET w == IF c.val < thr THEN setCoef(cf, it, 0)
                           ELSE [err |-> "none", old |-> c.val, coefs |-> cf, it |-> it]
                      nxt == Increment(rs, w.coefs, w.it)
                  IN  IF nxt.err # "none" THEN [err |-> nxt.err, coefs |-> w.coefs, it |-> w.it]
                      ELSE IF nxt.it = it /\ w.coefs = cf
                      THEN [err |-> "hang", coefs |-> cf, it |-> it]
                      ELSE removeEdgesLoop(rs, w.coefs, nxt.it, thr)

\* One iteration of the outer loop of DRG::removeEdges: row `from`.
removeEdges ==
    /\ pc = "removeEdges"
    /\ from < N
    /\ \E g \in Garbage :
         LET r == replaceNeighboursIterator(rows, cols, from, 0, iterator, g)
             l == IF r.err # "none" THEN [err |-> r.err, coefs |-> coefs, it |-> iterator]
                  ELSE removeEdgesLoop(rows, coefs, r.it, threshold)
         IN  /\ coefs' = l.coefs
             /\ iterator' = l.it
             /\ IF l.err # "none"
                THEN /\ exc' = l.err
                     /\ pc' = IF l.err = "hang" THEN "hang" ELSE "thrown"
                     /\ from' = from
                ELSE /\ exc' = exc
                     /\ from' = from + 1
                     /\ pc' = IF from + 1 < N THEN "removeEdges" ELSE "drgSources"
    /\ UNCHANGED <<nextRowIdx, finalized, rows, cols, caller, pyErr, retval, argVars,
                   i, drgVars, drgepVars, outVars, auxVars, dense, collectionVars>>

\* The loop over sources of DRG::run, up to the first two statements of
\* checkAchievables.
drgSources ==
    /\ pc = "drgSources"
    /\ IF i >= Len(sources)
       THEN \* return achievables
            /\ pc' = "returned"
            /\ resultBitmap' = achievables
            /\ UNCHANGED <<i, exc, drgVars>>
       ELSE LET source == At(sources, i) IN
            IF source > N
            THEN /\ pc' = "thrown" /\ exc' = "invalid_argument"
                 /\ UNCHANGED <<i, drgVars, resultBitmap>>
            ELSE IF source >= N  \* Bitmap::operator[]
            THEN /\ pc' = "thrown" /\ exc' = "out_of_range"
                 /\ UNCHANGED <<i, drgVars, resultBitmap>>
            ELSE IF At(achievables, source)
            THEN /\ i' = i + 1
                 /\ UNCHANGED <<pc, exc, drgVars, resultBitmap>>
            ELSE \E g \in Garbage :
                 LET r == getNeighboursIterator(rows, cols, source, 0, g) IN
                 IF r.err # "none"
                 THEN /\ pc' = "thrown" /\ exc' = r.err
                      /\ UNCHANGED <<i, drgVars, resultBitmap>>
                 ELSE IF Len(stack) = N  \* ArrayCollection::insert
                 THEN /\ pc' = "thrown" /\ exc' = "invalid_argument"
                      /\ UNCHANGED <<i, drgVars, resultBitmap>>
                 ELSE /\ stack' = Append(stack, [node |-> source, it |-> r.it])
                      /\ achievables' = Upd(achievables, source, TRUE)
                      /\ pc' = "checkAchievables"
                      /\ UNCHANGED <<i, exc, resultBitmap>>
    /\ UNCHANGED <<matrixVars, caller, pyErr, retval, argVars, from, iterator,
                   drgepVars, resultArray, outOfArrayWrites, auxVars, dense, collectionVars>>

\* the for loop without the test of achievables: every neighbour is pushed
scanNeighbours_unmarked(rs, cs, cf, ach, it) ==
    IF it.stopped THEN [err |-> "none", added |-> FALSE, it |-> it, neighbour |-> 0]
    ELSE LET t == getTo(cs, it)
         IN  IF t.err # "none" \/ t.val >= N
             THEN [err |-> "out_of_range", added |-> FALSE, it |-> it, neighbour |-> 0]
             ELSE [err |-> "none", added |-> TRUE, it |-> it, neighbour |-> t.val]

\* the for loop over the iterator on top of the stack
RECURSIVE scanNeighbours(_, _, _, _, _)
scanNeighbours(rs, cs, cf, ach, it) ==
    IF it.stopped THEN [err |-> "none", added |-> FALSE, it |-> it, neighbour |-> 0]
    ELSE LET t == getTo(cs, it)
         IN  IF t.err # "none" THEN [err |-> t.err, added |-> FALSE, it |-> it, neighbour |-> 0]
             ELSE IF t.val >= N  \* Bitmap::operator[]
             THEN [err |-> "out_of_range", added |-> FALSE, it |-> it, neighbour |-> 0]
             ELSE IF ~At(ach, t.val)
             THEN [err |-> "none", added |-> TRUE, it |-> it, neighbour |-> t.val]
             ELSE LET nxt == Increment(rs, cf, it)
                  IN  IF nxt.err # "none"
                      THEN [err |-> nxt.err, added |-> FALSE, it |-> it, neighbour |-> 0]
                      ELSE IF nxt.it = it
                      THEN [err |-> "hang", added |-> FALSE, it |-> it, neighbour |-> 0]
                      ELSE scanNeighbours(rs, cs, cf, ach, nxt.it)

\* One iteration of the while loop of DRG::checkAchievables.
checkAchievables ==
    /\ pc = "checkAchievables"
    /\ IF Len(stack) = 0
       THEN /\ pc' = "drgSources"
            /\ i' = i + 1
            /\ UNCHANGED <<exc, drgVars>>
       ELSE LET top == Len(stack)
                s == scanNeighbours(rows, cols, coefs, achievables, stack[top].it)
                scanned == [stack EXCEPT ![top].it = s.it]
            IN  IF s.err # "none"
                THEN /\ exc' = s.err
                     /\ pc' = IF s.err = "hang" THEN "hang" ELSE "thrown"
                     /\ UNCHANGED <<i, drgVars>>
                ELSE IF ~s.added
                THEN /\ stack' = SubSeq(scanned, 1, top - 1)
                     /\ UNCHANGED <<pc, i, exc, achievables>>
                ELSE \E g \in Garbage :
                     LET r == getNeighboursIterator(rows, cols, s.neighbour, 0, g) IN
                     /\ achievables' = Upd(achievables, s.neighbour, TRUE)
                     /\ IF r.err # "none"
                        THEN /\ pc' = "thrown" /\ exc' = r.err
                             /\ stack' = scanned
                             /\ i' = i
                        ELSE IF Len(stack) = N  \* ArrayCollection::insert
                        THEN /\ pc' = "thrown" /\ exc' = "invalid_argument"
                             /\ stack' = scanned
                             /\ i' = i
                        ELSE /\ stack' = Append(scanned, [node |-> s.neighbour, it |-> r.it])
                             /\ UNCHANGED <<pc, i, exc>>
    /\ UNCHANGED <<matrixVars, caller, pyErr, retval, argVars, from, iterator,
                   drgepVars, outVars, auxVars, dense, collectionVars>>

\* ------------------------------------------------------------------- DRGEP
\* stands for SIZE_MAX, the "not found" / "no stop given" value: every index
\* of the model is smaller
SIZE_MAX == 2 ^ 30

\* bsearchLeftToInsert(collection, element, compare, start, stop); the
\* std::function compare is a function on pairs <<middleElement, element>>
bsearchLeftToInsert(collection, element, compare, start0, stop0) ==
    LET size == Len(collection)
        stop1 == IF stop0 = SIZE_MAX THEN size ELSE stop0
        search[r \in (0 .. size) \X (0 .. size)] ==
            LET start == r[1]
                stop == r[2]
                middle == (stop + start) \div 2
            IN  IF ~(stop - start > 0) THEN start
                ELSE IF compare[<<At(collection, middle), element>>]
                THEN search[<<middle + 1, stop>>]
                ELSE search[<<start, middle>>]
    IN  IF start0 > size \/ stop1 > size THEN [err |-> "out_of_range", idx |-> 0]
        ELSE IF start0 > stop1 THEN [err |-> "invalid_argument", idx |-> 0]
        ELSE [err |-> "none", idx |-> search[<<start0, stop1>>]]

\* bsearchLeft(collection, element, compare, start, stop)
bsearchLeft(collection, element, compare, start0, stop0) ==
    LET compare2 == [p \in DOMAIN compare |-> compare[p] <= 0]
        r == bsearchLeftToInsert(collection, element, compare2, start0, stop0)
    IN  IF r.err # "none" THEN r
        ELSE IF r.idx = 0 THEN [err |-> "none", idx |-> SIZE_MAX]
        ELSE IF compare[<<At(collection, r.idx - 1), element>>] = 0
        THEN [err |-> "none", idx |-> r.idx - 1]
        ELSE [err |-> "none", idx |-> SIZE_MAX]

\* compare of insertToOrderedQueue that orders by vertex index alone
compareToInsert_byIndex(paths, middleElement, element) == middleElement <= element

\* the lambdas `compare` / `compareToInsert` of insertToOrderedQueue and
\* updateQueue
compareToInsert(paths, middleElement, element) ==
    LET middleElementPath == At(paths, middleElement)
        elementPath == At(paths, element)
    IN  IF middleElementPath < elementPath THEN TRUE
        ELSE IF middleElementPath > elementPath THEN FALSE
        ELSE middleElement <= element

\* the lambda `compareToSearch` of updateQueue
compareToSearch(paths, middleElement, element) ==
    LET middleElementPath == At(paths, middleElement)
        elementPath == At(paths, element)
    IN  IF middleElementPath < elementPath THEN 1
        ELSE IF middleElementPath > elementPath THEN -1
        ELSE IF middleElement < element THEN 1
        ELSE IF middleElement > element THEN -1
        ELSE 0

\* the pairs of vertices a comparator can be called on: pathsLengths has
\* one entry for every vertex of the matrix
NodePairs(paths) == (0 .. Len(paths) - 1) \X (0 .. Len(paths) - 1)

\* ArrayCollection::insert
InsertAt(q, idx, v) == SubSeq(q, 1, idx) \o <<v>> \o SubSeq(q, idx + 1, Len(q))

\* DRGEP::insertToOrderedQueue
insertToOrderedQueue(queue, paths, node) ==
    LET idxToInsert == bsearchLeftToInsert(queue, node,
                           [p \in NodePairs(paths) |-> compareToInsert(paths, p[1], p[2])], 0, SIZE_MAX)
    IN  IF idxToInsert.err # "none" THEN [err |-> idxToInsert.err, queue |-> queue]
        ELSE IF Len(queue) = Len(paths)  \* orderedQueue(matrix.getSize(), allocator) is full
        THEN [err |-> "invalid_argument", queue |-> queue]
        ELSE [err |-> "none", queue |-> InsertAt(queue, idxToInsert.idx, node)]

\* DRGEP::updateQueue
updateQueue(queue, paths, node) ==
    LET idxToInsert == bsearchLeftToInsert(queue, node,
                           [p \in NodePairs(paths) |-> compareToInsert(paths, p[1], p[2])], 0, SIZE_MAX)
        currentIdx == bsearchLeft(queue, node,
                           [p \in NodePairs(paths) |-> compareToSearch(paths, p[1], p[2])], 0, SIZE_MAX)
    IN  IF idxToInsert.err # "none" THEN [err |-> idxToInsert.err, queue |-> queue]
        ELSE IF At(paths, node) = 0 THEN [err |-> "invalid_argument", queue |-> queue]
        ELSE IF currentIdx.err # "none" THEN [err |-> currentIdx.err, queue |-> queue]
        ELSE IF currentIdx.idx = SIZE_MAX THEN [err |-> "invalid_argument", queue |-> queue]
        ELSE IF currentIdx.idx + 1 = idxToInsert.idx THEN [err |-> "none", queue |-> queue]
        ELSE IF idxToInsert.idx <= currentIdx.idx
        THEN \* the memmove length wraps around
             [err |-> "segfault", queue |-> queue]
        ELSE [err |-> "none",
              queue |-> SubSeq(queue, 1, currentIdx.idx)
                        \o SubSeq(queue, currentIdx.idx + 2, idxToInsert.idx)
                        \o <<node>>
                        \o SubSeq(queue, idxToInsert.idx + 1, Len(queue))]

\* the relaxation without the test against the length already known
relax_unguarded(queue, paths, neighbour, coef, currentPathLength, thr) ==
    LET neighbourPathLength == Mul(coef, currentPathLength)
        paths2 == Upd(paths, neighbour, neighbourPathLength)
    IN  IF At(paths, neighbour) = 0
        THEN [err |-> insertToOrderedQueue(queue, paths2, neighbour).err,
              queue |-> insertToOrderedQueue(queue, paths2, neighbour).queue,
              paths |-> paths2, op |-> "insert"]
        ELSE [err |-> "none", queue |-> queue, paths |-> paths2, op |-> "update"]

\* the body of the for loop of DRGEP::calcPathLengths for one neighbour
relax(queue, paths, neighbour, coef, currentPathLength, thr) ==
    LET neighbourPathLength == Mul(coef, currentPathLength)
        old == At(paths, neighbour)
        paths2 == Upd(paths, neighbour, neighbourPathLength)
    IN  IF neighbourPathLength <= old \/ neighbourPathLength < thr
        THEN [err |-> "none", queue |-> queue, paths |-> paths, op |-> "skip"]
        ELSE IF old = 0
        THEN LET q == insertToOrderedQueue(queue, paths2, neighbour)
             IN  [err |-> q.err, queue |-> q.queue, paths |-> paths2, op |-> "insert"]
        ELSE LET q == updateQueue(queue, paths2, neighbour)
             IN  [err |-> q.err, queue |-> q.queue, paths |-> paths2, op |-> "update"]

\* the for loop of DRGEP::calcPathLengths over the neighbours of one node
RECURSIVE neighboursLoop(_, _, _, _, _, _, _, _)
neighboursLoop(rs, cs, cf, it, queue, paths, currentPathLength, thr) ==
    IF it.stopped THEN [err |-> "none", it |-> it, queue |-> queue, paths |-> paths]
    ELSE
    LET t == getTo(cs, it)
        c == getCoef(cf, it)
        neighbour == t.val
        neighbourPathLength == Mul(c.val, currentPathLength)
        skip == neighbourPathLength <= At(paths, neighbour) \/ neighbourPathLength < thr
        old == At(paths, neighbour)
        paths2 == IF skip THEN paths ELSE Upd(paths, neighbour, neighbourPathLength)
        q == IF skip THEN [err |-> "none", queue |-> queue]
             ELSE IF old = 0 THEN insertToOrderedQueue(queue, paths2, neighbour)
             ELSE updateQueue(queue, paths2, neighbour)
        nxt == Increment(rs, cf, it)
    IN  IF t.err # "none" THEN [err |-> t.err, it |-> it, queue |-> queue, paths |-> paths]
        ELSE IF c.err # "none" THEN [err |-> c.err, it |-> it, queue |-> queue, paths |-> paths]
        ELSE IF neighbour >= N
        THEN [err |-> "out_of_range", it |-> it, queue |-> queue, paths |-> paths]
        ELSE IF q.err # "none" THEN [err |-> q.err, it |-> it, queue |-> queue, paths |-> paths2]
        ELSE IF nxt.err # "none" THEN [err |-> nxt.err, it |-> it, queue |-> q.queue, paths |-> paths2]
        ELSE IF nxt.it = it /\ skip
        THEN [err |-> "hang", it |-> it, queue |-> q.queue, paths |-> paths2]
        ELSE neighboursLoop(rs, cs, cf, nxt.it, q.queue, paths2, currentPathLength, thr)

\* vertices with pathsLengths[i] >= threshold are added to the result
markResult(res, paths, thr) ==
    [k \in 1 .. N |-> res[k] \/ paths[k] >= thr]

\* The loop over sources of DRGEP::run, up to the first two statements of
\* calcPathLengths.
drgepSources ==
    /\ pc = "drgepSources"
    /\ IF i >= Len(sources)
       THEN \* return result
            /\ pc' = "returned"
            /\ resultBitmap' = result
            /\ UNCHANGED <<exc, drgepVars>>
       ELSE LET source == At(sources, i) IN
            IF Len(orderedQueue) = N  \* ArrayCollection::insert
            THEN /\ pc' = "thrown" /\ exc' = "invalid_argument"
                 /\ UNCHANGED <<drgepVars, resultBitmap>>
            ELSE IF source >= N  \* ArrayCollection::operator[]
            THEN /\ pc' = "thrown" /\ exc' = "out_of_range"
                 /\ orderedQueue' = Append(orderedQueue, source)
                 /\ UNCHANGED <<pathsLengths, result, resultBitmap>>
            ELSE /\ orderedQueue' = Append(orderedQueue, source)
                 /\ pathsLengths' = Upd(pathsLengths, source, Unit)
                 /\ pc' = "calcPathLengths"
                 /\ UNCHANGED <<exc, result, resultBitmap>>
    /\ UNCHANGED <<matrixVars, caller, pyErr, retval, argVars, i, from, iterator,
                   drgVars, resultArray, outOfArrayWrites, auxVars, dense, collectionVars>>

\* One iteration of the while loop of DRGEP::calcPathLengths; when the queue
\* is empty, the rest of the body of the loop over sources in DRGEP::run.
calcPathLengths ==
    /\ pc = "calcPathLengths"
    /\ IF Len(orderedQueue) = 0
       THEN /\ result' = markResult(result, pathsLengths, threshold)
            /\ IF i + 1 < Len(sources)
               THEN pathsLengths' = AllZero
               ELSE pathsLengths' = pathsLengths
            /\ i' = i + 1
            /\ pc' = "drgepSources"
            /\ UNCHANGED <<iterator, orderedQueue, exc>>
       ELSE \E g \in Garbage :
            LET last == Len(orderedQueue)
                currentNode == orderedQueue[last]
                popped == SubSeq(orderedQueue, 1, last - 1)
                currentPathLength == At(pathsLengths, currentNode)
                r == replaceNeighboursIterator(rows, cols, currentNode, 0, iterator, g)
                l == IF r.err # "none"
                     THEN [err |-> r.err, it |-> iterator, queue |-> popped, paths |-> pathsLengths]
                     ELSE neighboursLoop(rows, cols, coefs, r.it, popped, pathsLengths,
                                         currentPathLength, threshold)
            IN  /\ orderedQueue' = l.queue
                /\ pathsLengths' = l.paths
                /\ iterator' = l.it
                /\ IF l.err # "none"
                   THEN /\ exc' = l.err
                        /\ pc' = IF l.err = "hang" THEN "hang" ELSE "thrown"
                   ELSE UNCHANGED <<pc, exc>>
                /\ UNCHANGED <<i, result>>
    /\ UNCHANGED <<matrixVars, caller, pyErr, retval, argVars, from,
                   drgVars, outVars, auxVars, dense, collectionVars>>

\* ------------------------------------------------------------- host bridge
MethodNames == {"DRG", "DRGEP", "PFA", "XYZ"}

\* strcmp: 0 exactly when the strings are equal
strcmp(a, b) == IF a = b THEN 0 ELSE 1

\* the if / else if / else chain of run_reducing that selects the reducer;
\* a C condition is true when the value is not 0
dispatch(buf) ==
    IF strcmp(buf, "DRG") # 0 THEN "DRG"
    ELSE IF strcmp(buf, "DRGEP") # 0 THEN "DRGEP"
    ELSE "PFA"

\* countBits(Bitmap, value) for a bitmap that fits one section
countBits(bitmap, value) == Cardinality({k \in 1 .. Len(bitmap) : bitmap[k] = value})

NonZeroCols(data) == SelectSeq([k \in 1 .. N |-> k - 1], LAMBDA c : data[c + 1] # 0)
NonZeroCoefs(data) == SelectSeq(data, LAMBDA v : v # 0)

RECURSIVE Accumulate(_, _)
Accumulate(rs, k) == IF k = 0 THEN 0 ELSE Accumulate(rs, k - 1) + rs[k]

\* entry of DRG::run / DRGEP::run: fresh locals
StartRun(red, thr, srcs) ==
    /\ reducer' = red
    /\ threshold' = thr
    /\ sources' = srcs
    /\ i' = 0
    /\ from' = 0
    /\ iterator' = NullIterator
    /\ achievables' = AllFalse
    /\ stack' = <<>>
    /\ orderedQueue' = <<>>
    /\ pathsLengths' = AllZero
    /\ result' = AllFalse
    /\ exc' = "none"
    /\ coefs0' = coefs
    /\ resultBitmap' = <<>>
    /\ resultArray' = <<>>
    /\ outOfArrayWrites' = {}
    /\ pc' = IF red = "DRG" THEN "removeEdges"
             ELSE IF red = "DRGEP" THEN "drgepSources" ELSE "pfa"

\* ------------------------------------------------- sectioned collections
\* ArrayCollection::insert on an array with room for `allocated` elements
ArrayInsert(array, allocated, idx, element) ==
    IF Len(array) = allocated THEN [err |-> "invalid_argument", array |-> array]
    ELSE IF idx > Len(array) THEN [err |-> "out_of_range", array |-> array]
    ELSE [err |-> "none", array |-> InsertAt(array, idx, element)]

\* ArrayCollection::remove on a section
ArrayRemove(array, idx) ==
    IF idx >= Len(array) THEN [err |-> "out_of_range", array |-> array, old |-> 0]
    ELSE [err |-> "none", old |-> At(array, idx),
          array |-> SubSeq(array, 1, idx) \o SubSeq(array, idx + 2, Len(array))]

\* A sectioned collection is its sections (each a list of at most
\* sectionSize elements), its size and its section size.
\* SectionedCollection(size, value, allocator, sectionSize) for the elements
\* of seq: every section but the last is full
Sections(seq) ==
    [k \in 1 .. (Len(seq) + SectionSize - 1) \div SectionSize |->
        SubSeq(seq, (k - 1) * SectionSize + 1,
               IF k * SectionSize < Len(seq) THEN k * SectionSize ELSE Len(seq))]

RECURSIVE Elements(_)
Elements(sections) ==
    IF sections = <<>> THEN <<>>
    ELSE Elements(SubSeq(sections, 1, Len(sections) - 1)) \o sections[Len(sections)]

\* SectionedCollectionCommonMethods::getAllocatedSize
getAllocatedSize(c) == c.sectionSize * Len(c.sections)

\* SectionedCollectionCommonMethods::operator[]
SectionedGet(c, idx) ==
    LET sectionIdx == idx \div c.sectionSize
        idxInSection == idx % c.sectionSize
    IN  IF idx >= c.size \/ ~InRange(c.sections, sectionIdx)
        THEN [err |-> "out_of_range", val |-> 0]
        ELSE IF ~InRange(At(c.sections, sectionIdx), idxInSection)
        THEN [err |-> "out_of_range", val |-> 0]
        ELSE [err |-> "none", val |-> At(At(c.sections, sectionIdx), idxInSection)]

\* SectionedCollectionCommonMethods::resize, the growing loop: its bound is
\* evaluated again after every append
RECURSIVE resizeLoop(_, _, _)
resizeLoop(sections, k, newSectionCount) ==
    IF k < newSectionCount - Len(sections)
    THEN resizeLoop(Append(sections, <<>>), k + 1, newSectionCount)
    ELSE sections

\* the shrinking loop, its bound evaluated again after every remove
RECURSIVE shrinkLoop(_, _, _)
shrinkLoop(sections, k, newSectionCount) ==
    IF k < Len(sections) - newSectionCount
    THEN shrinkLoop(SubSeq(sections, 1, Len(sections) - 1), k + 1, newSectionCount)
    ELSE sections

\* SectionedCollectionCommonMethods::resize
resize(c, newSpaceSize) ==
    LET newSectionCount == (newSpaceSize \div c.sectionSize)
                           + (IF newSpaceSize % c.sectionSize # 0 THEN 1 ELSE 0)
    IN  IF newSpaceSize < c.size THEN [err |-> "invalid_argument", c |-> c]
        ELSE [err |-> "none",
              c |-> [c EXCEPT !.sections =
                       IF newSectionCount > Len(@) THEN resizeLoop(@, 0, newSectionCount)
                       ELSE shrinkLoop(@, 0, newSectionCount)]]

\* the loop of insert that moves the last element of every full section
\* into the next section, from section k down to the one after sectionIdx
RECURSIVE shiftSections(_, _, _, _)
shiftSections(sections, sectionSize, k, sectionIdx) ==
    IF ~(k > sectionIdx) THEN [err |-> "none", sections |-> sections]
    ELSE IF k >= Len(sections) THEN [err |-> "out_of_range", sections |-> sections]
    ELSE LET removed == ArrayRemove(At(sections, k - 1), sectionSize - 1)
             inserted == ArrayInsert(At(sections, k), sectionSize, 0, removed.old)
         IN  IF removed.err # "none" THEN [err |-> removed.err, sections |-> sections]
             ELSE IF inserted.err # "none"
             THEN [err |-> inserted.err, sections |-> Upd(sections, k - 1, removed.array)]
             ELSE shiftSections(Upd(Upd(sections, k - 1, removed.array), k, inserted.array),
                                sectionSize, k - 1, sectionIdx)

\* the body shared by the two insert overloads; lastUsedSectionIdx is where
\* their shifting loop starts
insertFrom(c, idx, element, lastUsedSectionIdx) ==
    LET resized == IF c.size = c.sectionSize * Len(c.sections)
                   THEN resize(c, c.size + c.sectionSize).c ELSE c
        sections == resized.sections
        sectionIdx == idx \div c.sectionSize
        idxInSection == idx % c.sectionSize
    IN  IF idx > c.size THEN [err |-> "out_of_range", c |-> c]
        ELSE IF ~InRange(sections, sectionIdx) THEN [err |-> "out_of_range", c |-> resized]
        ELSE IF Len(At(sections, sectionIdx)) < c.sectionSize
        THEN LET r == ArrayInsert(At(sections, sectionIdx), c.sectionSize, idxInSection, element)
             IN  IF r.err # "none" THEN [err |-> r.err, c |-> resized]
                 ELSE [err |-> "none",
                       c |-> [resized EXCEPT !.sections = Upd(sections, sectionIdx, r.array),
                                             !.size = c.size + 1]]
        ELSE LET shifted == shiftSections(sections, c.sectionSize, lastUsedSectionIdx,
                                          sectionIdx)
                 r == ArrayInsert(At(shifted.sections, sectionIdx), c.sectionSize,
                                  idxInSection, element)
             IN  IF shifted.err # "none"
                 THEN [err |-> shifted.err, c |-> [resized EXCEPT !.sections = shifted.sections]]
                 ELSE IF r.err # "none"
                 THEN [err |-> r.err, c |-> [resized EXCEPT !.sections = shifted.sections]]
                 ELSE [err |-> "none",
                       c |-> [resized EXCEPT
                                !.sections = Upd(shifted.sections, sectionIdx, r.array),
                                !.size = c.size + 1]]

\* SectionedCollection<T, true>::insert(size_t, const T&)
insertCopy(c, idx, element) == insertFrom(c, idx, element, c.size \div c.sectionSize)

\* SectionedCollectionCommonMethods::insert(size_t, T&&)
insertMove(c, idx, element) == insertFrom(c, idx, element, (c.size + 1) \div c.sectionSize)

\* remove that leaves the sections after the one removed from as they are
pullSections_none(sections, k, lastUsedSectionIdx) ==
    [err |-> "none", sections |-> sections]

\* the loop of remove that moves the first element of every later used
\* section to the end of the section before it
RECURSIVE pullSections(_, _, _)
pullSections(sections, k, lastUsedSectionIdx) ==
    IF ~(k < lastUsedSectionIdx) THEN [err |-> "none", sections |-> sections]
    ELSE IF ~InRange(sections, k + 1) THEN [err |-> "out_of_range", sections |-> sections]
    ELSE LET removed == ArrayRemove(At(sections, k + 1), 0)
         IN  IF removed.err # "none" THEN [err |-> removed.err, sections |-> sections]
             ELSE pullSections(Upd(Upd(sections, k + 1, removed.array), k,
                                   Append(At(sections, k), removed.old)),
                               k + 1, lastUsedSectionIdx)

\* SectionedCollectionCommonMethods::remove; the position handed to the
\* section is sectionIdx
SectionedRemove(c, idx) ==
    LET sectionIdx == idx \div c.sectionSize
        idxInSection == idx % c.sectionSize
    IN  IF idx >= c.size \/ ~InRange(c.sections, sectionIdx)
        THEN [err |-> "out_of_range", val |-> 0, c |-> c]
        ELSE LET removed == ArrayRemove(At(c.sections, sectionIdx), sectionIdx)
                 sections1 == Upd(c.sections, sectionIdx, removed.array)
                 pulled == IF Len(removed.array) + 1 = c.sectionSize
                           THEN pullSections(sections1, sectionIdx,
                                             (c.size - 1) \div c.sectionSize)
                           ELSE [err |-> "none", sections |-> sections1]
                 sectionsCountToRemove ==
                     (c.sectionSize * Len(pulled.sections) - (c.size - 1)) \div c.sectionSize
             IN  IF removed.err # "none" THEN [err |-> removed.err, val |-> 0, c |-> c]
                 ELSE IF pulled.err # "none"
                 THEN [err |-> pulled.err, val |-> 0,
                       c |-> [c EXCEPT !.sections = pulled.sections]]
                 ELSE [err |-> "none", val |-> removed.old,
                       c |-> [c EXCEPT !.size = c.size - 1,
                                       !.sections = SubSeq(pulled.sections, 1,
                                           Len(pulled.sections) - sectionsCountToRemove)]]

\* SectionedCollectionCommonMethods::clear for a trivial element type: the
\* sections are not cleared, truncate() is resize(getSize())
SectionedClear(c) == resize(c, c.size).c

\* SectionedCollection<T, true>::insert on the collection that holds seq
SectionedInsert(seq, idx, element) ==
    LET r == insertCopy([sections |-> Sections(seq), size |-> Len(seq),
                         sectionSize |-> SectionSize], idx, element)
    IN  [err |-> r.err, seq |-> IF r.err = "none" THEN Elements(r.c.sections) ELSE seq]

\* IndexableCollection::append for every element of a list, in order
RECURSIVE AppendAll(_, _)
AppendAll(seq, elements) ==
    IF elements = <<>> THEN [err |-> "none", seq |-> seq]
    ELSE LET r == SectionedInsert(seq, Len(seq), Head(elements))
         IN  IF r.err # "none" THEN r ELSE AppendAll(r.seq, Tail(elements))

\* ------------------------------------------------------ CSRAdjacencyMatrix
\* the default comparator of bsearchLeftToInsert: middleElement <= element
lessOrEqual == [p \in Indices \X Indices |-> p[1] <= p[2]]

\* at() that reads the first stored entry of the row whatever its column
at_first(rs, cs, cf, from_, to) ==
    LET start == IF from_ # 0 THEN At(rs, from_ - 1) ELSE 0
    IN  IF start = At(rs, from_) THEN [err |-> "none", val |-> 0]
        ELSE [err |-> "none", val |-> At(cf, start)]

\* CSRAdjacencyMatrix::at
at(rs, cs, cf, from_, to) ==
    IF ~InRange(rs, from_) THEN [err |-> "out_of_range", val |-> 0]
    ELSE LET start == IF from_ # 0 THEN At(rs, from_ - 1) ELSE 0
             stop == At(rs, from_)
             found == bsearchLeftToInsert(cs, to, lessOrEqual, start, stop)
         IN  IF start = stop THEN [err |-> "none", val |-> 0]
             ELSE IF found.err # "none" THEN [err |-> found.err, val |-> 0]
             ELSE IF found.idx = start THEN [err |-> "none", val |-> 0]
             ELSE IF At(cs, found.idx - 1) = to
             THEN IF InRange(cf, found.idx - 1)
                  THEN [err |-> "none", val |-> At(cf, found.idx - 1)]
                  ELSE [err |-> "out_of_range", val |-> 0]
             ELSE [err |-> "none", val |-> 0]

\* setCoef() without the search for a stored entry and without the test
\* for a zero coefficient: the entry is always inserted
setCoef_insert(rs, cs, cf, from_, to, coef) ==
    LET start == IF from_ # 0 THEN At(rs, from_ - 1) ELSE 0
    IN  [err |-> "none", old |-> 0,
         rows |-> [k \in 1 .. N |-> IF k - 1 >= from_ THEN rs[k] + 1 ELSE rs[k]],
         cols |-> InsertAt(cs, start, to),
         coefs |-> InsertAt(cf, start, coef)]

\* CSRAdjacencyMatrix::setCoef: the value returned and the three collections
\* afterwards
CSRAdjacencyMatrix_setCoef(rs, cs, cf, from_, to, coef) ==
    LET unchanged == [err |-> "none", old |-> 0, rows |-> rs, cols |-> cs, coefs |-> cf]
    IN  IF N <= from_ \/ N <= to THEN [unchanged EXCEPT !.err = "out_of_range"]
        ELSE LET start == IF from_ # 0 THEN At(rs, from_ - 1) ELSE 0
                 stop == At(rs, from_)
                 found == bsearchLeftToInsert(cs, to, lessOrEqual, start, stop)
                 idx == found.idx
             IN  IF found.err # "none" THEN [unchanged EXCEPT !.err = found.err]
                 ELSE IF idx # start /\ At(cs, idx - 1) = to
                 THEN IF InRange(cf, idx - 1)
                      THEN [unchanged EXCEPT !.old = At(cf, idx - 1),
                                             !.coefs = Upd(cf, idx - 1, coef)]
                      ELSE [unchanged EXCEPT !.err = "out_of_range"]
                 ELSE IF coef # 0
                 THEN LET newCols == SectionedInsert(cs, idx, to)
                          newCoefs == SectionedInsert(cf, idx, coef)
                      IN  IF newCols.err # "none" THEN [unchanged EXCEPT !.err = newCols.err]
                          ELSE IF newCoefs.err # "none"
                          THEN [unchanged EXCEPT !.err = newCoefs.err, !.cols = newCols.seq]
                          ELSE [unchanged EXCEPT
                                  !.cols = newCols.seq,
                                  !.coefs = newCoefs.seq,
                                  !.rows = [k \in 1 .. N |->
                                              IF k - 1 >= from_ THEN rs[k] + 1 ELSE rs[k]]]
                 ELSE unchanged

\* ------------------------------------------------------------------ Bitmap
\* A BoolSection word is a function from bit index to BOOLEAN, bit 0 being
\* the least significant one; bits shifted out of the word are lost.
BitIndices == 0 .. BITS_COUNT_IN_SECTION - 1
ALL_BITS_EQUAL_ONE == [k \in BitIndices |-> TRUE]
ALL_BITS_EQUAL_ZERO == [k \in BitIndices |-> FALSE]
BitAnd(a, b) == [k \in BitIndices |-> a[k] /\ b[k]]
BitOr(a, b) == [k \in BitIndices |-> a[k] \/ b[k]]

\* a << n and a >> n.  A shift by the width of the word is undefined: a
\* build either shifts every bit out ("zero") or shifts by n modulo the
\* width ("wrap"); `wide` names what this build does.
WideShifts == {"zero", "wrap"}
ShiftLeft(a, n, wide) ==
    IF n >= BITS_COUNT_IN_SECTION
    THEN IF wide = "zero" THEN ALL_BITS_EQUAL_ZERO ELSE a
    ELSE [k \in BitIndices |-> IF k >= n THEN a[k - n] ELSE FALSE]
ShiftRight(a, n, wide) ==
    IF n >= BITS_COUNT_IN_SECTION
    THEN IF wide = "zero" THEN ALL_BITS_EQUAL_ZERO ELSE a
    ELSE [k \in BitIndices |-> IF k + n < BITS_COUNT_IN_SECTION THEN a[k + n] ELSE FALSE]

\* BoolSection::getBit / setBit
getBit(bits, bitIdx) == bits[bitIdx]
setBit(bits, bitIdx, value) == [bits EXCEPT ![bitIdx] = value]

\* BoolSection::insert: the word afterwards and the bit that left it
BoolSection_insert(bits, bitIdx, value, wide) ==
    LET leaved == getBit(bits, BITS_COUNT_IN_SECTION - 1)
        bitsBefore == BitAnd(bits, ShiftRight(ALL_BITS_EQUAL_ONE,
                                              BITS_COUNT_IN_SECTION - bitIdx, wide))
        bitsAfter == ShiftLeft(BitAnd(ShiftLeft(ALL_BITS_EQUAL_ONE, bitIdx, wide), bits),
                               1, wide)
    IN  [bits |-> setBit(BitOr(bitsBefore, bitsAfter), bitIdx, value), leaved |-> leaved]

\* BoolSection::remove
BoolSection_remove(bits, bitIdx, leftestValue, wide) ==
    LET leaved == getBit(bits, bitIdx)
        bitsBefore == BitAnd(bits, ShiftRight(ALL_BITS_EQUAL_ONE,
                                              BITS_COUNT_IN_SECTION - bitIdx, wide))
        bitsAfter == ShiftRight(BitAnd(ShiftLeft(ALL_BITS_EQUAL_ONE, bitIdx + 1, wide), bits),
                                1, wide)
    IN  [bits |-> setBit(BitOr(bitsBefore, bitsAfter), BITS_COUNT_IN_SECTION - 1,
                         leftestValue),
         leaved |-> leaved]

\* BoolSection::countBits
BoolSection_countBits(bits) == Cardinality({k \in BitIndices : bits[k]})

\* A bitmap is its collection of sections and its size.
\* Bitmap::Bitmap(size, value, allocator)
Bitmap(size, value) ==
    LET sectionsCount == (size \div BITS_COUNT_IN_SECTION)
                         + (IF size % BITS_COUNT_IN_SECTION # 0 THEN 1 ELSE 0)
    IN  [boolSections |-> [k \in 1 .. sectionsCount |->
                             IF value THEN ALL_BITS_EQUAL_ONE ELSE ALL_BITS_EQUAL_ZERO],
         size |-> size]

\* Bitmap::operator[] read
Bitmap_get(bitmap, idx) ==
    IF idx >= bitmap.size THEN [err |-> "out_of_range", val |-> FALSE]
    ELSE IF ~InRange(bitmap.boolSections, idx \div BITS_COUNT_IN_SECTION)
    THEN [err |-> "out_of_range", val |-> FALSE]
    ELSE [err |-> "none",
          val |-> getBit(At(bitmap.boolSections, idx \div BITS_COUNT_IN_SECTION),
                         idx % BITS_COUNT_IN_SECTION)]

\* Bitmap::replace, and the assignment through the BoolReference that
\* operator[] returns: both set one bit; replace returns the old one
Bitmap_replace(bitmap, idx, element) ==
    LET sectionIdx == idx \div BITS_COUNT_IN_SECTION
        bitIdx == idx % BITS_COUNT_IN_SECTION
    IN  IF idx >= bitmap.size \/ ~InRange(bitmap.boolSections, sectionIdx)
        THEN [err |-> "out_of_range", val |-> FALSE, bitmap |-> bitmap]
        ELSE [err |-> "none",
              val |-> getBit(At(bitmap.boolSections, sectionIdx), bitIdx),
              bitmap |-> [bitmap EXCEPT !.boolSections =
                            Upd(@, sectionIdx, setBit(At(@, sectionIdx), bitIdx, element))]]

\* the carry loop of Bitmap::insert over the sections after sectionIdx
RECURSIVE insertCarry(_, _, _, _, _)
insertCarry(boolSections, k, usedSections, leaved, wide) ==
    IF ~(k < usedSections) THEN [err |-> "none", boolSections |-> boolSections]
    ELSE IF ~InRange(boolSections, k) THEN [err |-> "out_of_range", boolSections |-> boolSections]
    ELSE LET r == BoolSection_insert(At(boolSections, k), 0, leaved, wide)
         IN  insertCarry(Upd(boolSections, k, r.bits), k + 1, usedSections, r.leaved, wide)

\* Bitmap::insert
Bitmap_insert(bitmap, idx, element, wide) ==
    LET boolSections == IF Len(bitmap.boolSections) * BITS_COUNT_IN_SECTION = bitmap.size
                        THEN Append(bitmap.boolSections, ALL_BITS_EQUAL_ZERO)
                        ELSE bitmap.boolSections
        sectionIdx == idx \div BITS_COUNT_IN_SECTION
        bitIdx == idx % BITS_COUNT_IN_SECTION
        usedSections == bitmap.size \div BITS_COUNT_IN_SECTION + 1
    IN  IF idx > bitmap.size THEN [err |-> "out_of_range", bitmap |-> bitmap]
        ELSE IF ~InRange(boolSections, sectionIdx)
        THEN [err |-> "out_of_range", bitmap |-> [bitmap EXCEPT !.boolSections = boolSections]]
        ELSE LET first == BoolSection_insert(At(boolSections, sectionIdx), bitIdx, element, wide)
                 rest == insertCarry(Upd(boolSections, sectionIdx, first.bits),
                                     sectionIdx + 1, usedSections, first.leaved, wide)
             IN  IF rest.err # "none"
                 THEN [err |-> rest.err,
                       bitmap |-> [bitmap EXCEPT !.boolSections = rest.boolSections]]
                 ELSE [err |-> "none",
                       bitmap |-> [boolSections |-> rest.boolSections,
                                   size |-> bitmap.size + 1]]

\* the loop of Bitmap::remove over the sections after sectionIdx, last one
\* first; what BoolSection::remove returns is dropped and `leaved` stays false
RECURSIVE removeCarry(_, _, _, _)
removeCarry(boolSections, k, sectionIdx, wide) ==
    IF ~(k > sectionIdx) THEN [err |-> "none", boolSections |-> boolSections]
    ELSE IF ~InRange(boolSections, k) THEN [err |-> "out_of_range", boolSections |-> boolSections]
    ELSE removeCarry(Upd(boolSections, k,
                         BoolSection_remove(At(boolSections, k), 0, FALSE, wide).bits),
                     k - 1, sectionIdx, wide)

\* Bitmap::remove; the function returns before the size is changed
Bitmap_remove(bitmap, idx, wide) ==
    LET sectionIdx == idx \div BITS_COUNT_IN_SECTION
        bitIdx == idx % BITS_COUNT_IN_SECTION
        usedSections == (bitmap.size \div BITS_COUNT_IN_SECTION)
                        + (IF bitmap.size % BITS_COUNT_IN_SECTION # 0 THEN 1 ELSE 0)
    IN  IF idx >= bitmap.size THEN [err |-> "out_of_range", val |-> FALSE, bitmap |-> bitmap]
        ELSE LET rest == removeCarry(bitmap.boolSections, usedSections - 1, sectionIdx, wide)
             IN  IF rest.err # "none" \/ ~InRange(rest.boolSections, sectionIdx)
                 THEN [err |-> "out_of_range", val |-> FALSE,
                       bitmap |-> [bitmap EXCEPT !.boolSections = rest.boolSections]]
                 ELSE LET r == BoolSection_remove(At(rest.boolSections, sectionIdx),
                                                  bitIdx, FALSE, wide)
                      IN  [err |-> "none", val |-> r.leaved,
                           bitmap |-> [bitmap EXCEPT !.boolSections =
                                         Upd(rest.boolSections, sectionIdx, r.bits)]]

\* Bitmap::clear: the sections collection is trivial, its clear() keeps it
Bitmap_clear(bitmap) == [bitmap EXCEPT !.size = 0]

\* countBits that counts every bit of every section
countBits_everySection(bitmap, value) ==
    LET ones == Accumulate([k \in 1 .. Len(bitmap.boolSections) |->
                              BoolSection_countBits(bitmap.boolSections[k])],
                           Len(bitmap.boolSections))
    IN  IF value THEN ones ELSE bitmap.size - ones

\* countBits<Bitmap>: whole sections by BoolSection::countBits, the bits of
\* the last, partly used section one by one
countBits_Bitmap(bitmap, value) ==
    LET fullFilledSectionsCount == bitmap.size \div BITS_COUNT_IN_SECTION
        whole == Accumulate([k \in 1 .. fullFilledSectionsCount |->
                               BoolSection_countBits(bitmap.boolSections[k])],
                            fullFilledSectionsCount)
        tail == Cardinality({k \in fullFilledSectionsCount * BITS_COUNT_IN_SECTION
                                    .. bitmap.size - 1 : Bitmap_get(bitmap, k).val})
        counted == whole + tail
    IN  IF value THEN counted ELSE bitmap.size - counted

\* return of run_reducing: its arguments and the reducer's locals are gone
EndOfHandler ==
    /\ method' = "none"
    /\ reducer' = "none"
    /\ threshold' = 0
    /\ sources' = <<>>
    /\ i' = 0
    /\ from' = 0
    /\ iterator' = NullIterator
    /\ achievables' = AllFalse
    /\ stack' = <<>>
    /\ orderedQueue' = <<>>
    /\ pathsLengths' = AllZero
    /\ result' = AllFalse
    /\ exc' = "none"
    /\ pc' = "idle"

\* add_row without the ascending-order check on the last added row: the
\* comparison of line 132 is made against nextRowIdx - 1
add_row_call_repeat(limit, rowIdx, data) ==
    /\ pc = "idle"
    /\ caller = "host"
    /\ Len(cols) + Len(NonZeroCols(data)) <= limit
    /\ IF nextRowIdx > rowIdx + 1
       THEN /\ pyErr' = "ValueError" /\ retval' = "NULL"
            /\ UNCHANGED <<matrixVars, dense>>
       ELSE IF rowIdx >= N
       THEN /\ pyErr' = "IndexError" /\ retval' = "NULL"
            /\ UNCHANGED <<matrixVars, dense>>
       ELSE /\ cols' = cols \o NonZeroCols(data)
            /\ coefs' = coefs \o NonZeroCoefs(data)
            /\ rows' = Upd(rows, rowIdx, Len(NonZeroCols(data)))
            /\ nextRowIdx' = rowIdx + 1
            /\ dense' = [dense EXCEPT ![rowIdx] = data]
            /\ pyErr' = "none" /\ retval' = "None"
            /\ UNCHANGED finalized
    /\ UNCHANGED <<pc, caller, argVars, i, from, iterator, drgVars, drgepVars, exc,
                   outVars, auxVars, collectionVars>>

\* CSRAdjacencyMatrixObject_add_row
add_row_call(limit, rowIdx, data) ==
    /\ pc = "idle"
    /\ caller = "host"
    /\ Len(cols) + Len(NonZeroCols(data)) <= limit
    /\ IF nextRowIdx > rowIdx
       THEN /\ pyErr' = "ValueError" /\ retval' = "NULL"
            /\ UNCHANGED <<matrixVars, dense>>
       ELSE IF rowIdx >= N
       THEN /\ pyErr' = "IndexError" /\ retval' = "NULL"
            /\ UNCHANGED <<matrixVars, dense>>
       ELSE IF nextRowIdx = N
       THEN /\ pyErr' = "ValueError" /\ retval' = "NULL"
            /\ UNCHANGED <<matrixVars, dense>>
       ELSE LET newCols == AppendAll(cols, NonZeroCols(data))
                newCoefs == AppendAll(coefs, NonZeroCoefs(data))
            IN  IF newCols.err # "none" \/ newCoefs.err # "none"
                THEN \* an exception leaves the handler: the process is terminated
                     /\ pyErr' = "terminate" /\ retval' = "NULL"
                     /\ UNCHANGED <<matrixVars, dense>>
                ELSE /\ cols' = newCols.seq
                     /\ coefs' = newCoefs.seq
                     /\ rows' = Upd(rows, rowIdx, Len(NonZeroCols(data)))
                     /\ nextRowIdx' = rowIdx + 1
                     /\ dense' = [dense EXCEPT ![rowIdx] = data]
                     /\ pyErr' = "none" /\ retval' = "None"
                     /\ UNCHANGED finalized
    /\ UNCHANGED <<pc, caller, argVars, i, from, iterator, drgVars, drgepVars, exc,
                   outVars, auxVars, collectionVars>>

add_row(limit) ==
    \E rowIdx \in Indices, data \in [1 .. N -> CoefValues] : add_row_call(limit, rowIdx, data)

\* CSRAdjacencyMatrixObject_finalize
finalize ==
    /\ pc = "idle"
    /\ caller = "host"
    /\ finalizeCalls < MaxFinalize
    /\ pyErr' = IF finalized THEN "ValueError" ELSE "none"
    /\ rows' = [k \in 1 .. N |-> Accumulate(rows, k)]
    /\ retval' = "None"
    /\ finalizeCalls' = finalizeCalls + 1
    /\ UNCHANGED <<nextRowIdx, finalized, cols, coefs, pc, caller, argVars, i, from,
                   iterator, drgVars, drgepVars, exc, outVars, runs, coefs0, previous, dense, collectionVars>>

\* CSRAdjacencyMatrixObject_run_reducing up to the call of the reducer.  The
\* "s" conversion stores a pointer into the 6-byte array `method`, so the
\* bytes strcmp reads (buf) are not determined by the string passed (m).
run_reducing ==
    /\ pc = "idle"
    /\ caller = "host"
    /\ runs < MaxRuns
    /\ \E m \in MethodNames, buf \in MethodNames, thr \in Thresholds,
          srcs \in SourceLists \cup {[k \in 1 .. N + 1 |-> 0]} :
         /\ method' = m
         /\ runs' = runs + 1
         /\ IF Len(srcs) > N
            THEN /\ pyErr' = "ValueError" /\ retval' = "NULL"
                 /\ UNCHANGED <<pc, reducer, threshold, sources, i, from, iterator,
                                drgVars, drgepVars, exc, outVars, coefs0>>
            ELSE /\ pyErr' = IF ~finalized THEN "ValueError" ELSE "none"
                 /\ retval' = "pending"
                 /\ StartRun(dispatch(buf), thr, srcs)
    /\ UNCHANGED <<matrixVars, caller, finalizeCalls, previous, dense, collectionVars>>

\* run_reducing after the reducer returned: the result array
materialise ==
    /\ pc = "returned"
    /\ caller = "host"
    /\ LET resultArraySize == countBits(resultBitmap, TRUE)
           retained == {k \in 0 .. N - 1 : At(resultBitmap, k)}
       IN  \E uninitialised \in [1 .. resultArraySize -> Garbage] :
             /\ resultArray' = [k \in 1 .. resultArraySize |->
                                  IF k - 1 \in retained THEN k - 1 ELSE uninitialised[k]]
             /\ outOfArrayWrites' = {k \in retained : k >= resultArraySize}
    /\ retval' = "array"
    /\ EndOfHandler
    /\ UNCHANGED <<matrixVars, caller, pyErr, resultBitmap, auxVars, dense, collectionVars>>

\* run_reducing: the catch clauses
catch ==
    /\ pc = "thrown"
    /\ caller = "host"
    /\ pyErr' = "RuntimeError"
    /\ retval' = "NULL"
    /\ EndOfHandler
    /\ UNCHANGED <<matrixVars, caller, outVars, auxVars, dense, collectionVars>>

\* ----------------------------------------------------------- specifications
Init ==
    /\ nextRowIdx = 0
    /\ finalized = FALSE
    /\ rows = AllZero
    /\ cols = <<>>
    /\ coefs = <<>>
    /\ pc = "idle"
    /\ caller = "host"
    /\ pyErr = "none"
    /\ retval = "None"
    /\ method = "none"
    /\ reducer = "none"
    /\ threshold = 0
    /\ sources = <<>>
    /\ i = 0
    /\ from = 0
    /\ iterator = NullIterator
    /\ achievables = AllFalse
    /\ stack = <<>>
    /\ orderedQueue = <<>>
    /\ pathsLengths = AllZero
    /\ result = AllFalse
    /\ exc = "none"
    /\ resultBitmap = <<>>
    /\ resultArray = <<>>
    /\ outOfArrayWrites = {}
    /\ finalizeCalls = 0
    /\ runs = 0
    /\ coefs0 = <<>>
    /\ previous = NoPrevious
    /\ dense = NotAdded
    /\ NoCollection

Next ==
    \/ add_row(MaxRunEdges)
    \/ finalize
    \/ run_reducing
    \/ removeEdges
    \/ drgSources
    \/ checkAchievables
    \/ drgepSources
    \/ calcPathLengths
    \/ materialise
    \/ catch

Spec == Init /\ [][Next]_vars

\* The builder alone: add_row and finalize in any order.
NextBuilder ==
    \/ add_row(MaxEdges)
    \/ finalize

SpecBuilder == Init /\ [][NextBuilder]_vars

\* The reducers called directly on a matrix that the builder produced.
EdgeSets == {E \in SUBSET ((0 .. N - 1) \X (0 .. N - 1)) : Cardinality(E) <= MaxEdges}
DenseMatrices ==
    UNION {{[p \in (0 .. N - 1) \X (0 .. N - 1) |-> IF p \in E THEN w[p] ELSE 0] :
              w \in [E -> CoefValues \ {0}]} : E \in EdgeSets}
DenseRow(d, r) == [k \in 1 .. N |-> d[<<r, k - 1>>]]

RECURSIVE BuiltCols(_, _)
BuiltCols(d, r) == IF r = 0 THEN <<>> ELSE BuiltCols(d, r - 1) \o NonZeroCols(DenseRow(d, r - 1))
RECURSIVE BuiltCoefs(_, _)
BuiltCoefs(d, r) == IF r = 0 THEN <<>> ELSE BuiltCoefs(d, r - 1) \o NonZeroCoefs(DenseRow(d, r - 1))
BuiltRows(d) == [r \in 1 .. N |-> Len(BuiltCols(d, r))]

InitReducers ==
    /\ \E d \in DenseMatrices :
         /\ rows = BuiltRows(d)
         /\ cols = BuiltCols(d, N)
         /\ coefs = BuiltCoefs(d, N)
         /\ coefs0 = BuiltCoefs(d, N)
    /\ nextRowIdx = N
    /\ finalized = FALSE
    /\ caller = "api"
    /\ pyErr = "none"
    /\ retval = "pending"
    /\ method = "none"
    /\ reducer \in {"DRG", "DRGEP"}
    /\ pc = IF reducer = "DRG" THEN "removeEdges" ELSE "drgepSources"
    /\ threshold \in Thresholds
    /\ sources \in SourceLists
    /\ i = 0
    /\ from = 0
    /\ iterator = NullIterator
    /\ achievables = AllFalse
    /\ stack = <<>>
    /\ orderedQueue = <<>>
    /\ pathsLengths = AllZero
    /\ result = AllFalse
    /\ exc = "none"
    /\ resultBitmap = <<>>
    /\ resultArray = <<>>
    /\ outOfArrayWrites = {}
    /\ finalizeCalls = 1
    /\ runs = 1
    /\ previous = NoPrevious
    /\ dense = NotAdded
    /\ NoCollection

\* a second run of the same reducer on the same matrix and sources with a
\* threshold that is not lower
rerun ==
    /\ pc = "returned"
    /\ caller = "api"
    /\ ~previous.done
    /\ \E thr \in Thresholds :
         /\ thr >= threshold
         /\ StartRun(reducer, thr, sources)
    /\ previous' = [done |-> TRUE, threshold |-> threshold, bitmap |-> resultBitmap]
    /\ runs' = runs + 1
    /\ UNCHANGED <<matrixVars, caller, pyErr, retval, method, finalizeCalls, dense, collectionVars>>

NextReducers ==
    \/ removeEdges
    \/ drgSources
    \/ checkAchievables
    \/ drgepSources
    \/ calcPathLengths
    \/ rerun

SpecReducers == InitReducers /\ [][NextReducers]_vars

\* A new matrix after finalize(), and one neighbour iterator, used directly:
\* setCoef on the matrix,
\* creation and re-seating of the iterator, ++, -- and setCoef through it.
\* A call that throws leaves the iterator as it was.
matrixFrame ==
    UNCHANGED <<nextRowIdx, finalized, callVars, argVars, i, from, drgVars, drgepVars,
                exc, outVars, auxVars, dense, collectionVars>>

matrixSetCoef(from_, to, coef) ==
    /\ pc = "matrix"
    /\ LET r == CSRAdjacencyMatrix_setCoef(rows, cols, coefs, from_, to, coef)
       IN  /\ Len(r.cols) <= MaxStored
           /\ rows' = r.rows
           /\ cols' = r.cols
           /\ coefs' = r.coefs
    /\ UNCHANGED iterator
    /\ matrixFrame

matrixGetNeighboursIterator(from_, to) ==
    /\ pc = "matrix"
    /\ \E g \in Garbage :
         LET r == getNeighboursIterator(rows, cols, from_, to, g)
         IN  iterator' = IF r.err = "none" THEN r.it ELSE iterator
    /\ UNCHANGED <<rows, cols, coefs>>
    /\ matrixFrame

matrixReplaceNeighboursIterator(from_, to) ==
    /\ pc = "matrix"
    /\ \E g \in Garbage :
         LET r == replaceNeighboursIterator(rows, cols, from_, to, iterator, g)
         IN  iterator' = IF r.err = "none" THEN r.it ELSE iterator
    /\ UNCHANGED <<rows, cols, coefs>>
    /\ matrixFrame

iteratorIncrement ==
    /\ pc = "matrix"
    /\ iterator.inner
    /\ LET r == Increment(rows, coefs, iterator)
       IN  iterator' = IF r.err = "none" THEN r.it ELSE iterator
    /\ UNCHANGED <<rows, cols, coefs>>
    /\ matrixFrame

iteratorDecrement ==
    /\ pc = "matrix"
    /\ iterator.inner
    /\ LET r == Decrement(rows, coefs, iterator)
       IN  iterator' = IF r.err = "none" THEN r.it ELSE iterator
    /\ UNCHANGED <<rows, cols, coefs>>
    /\ matrixFrame

iteratorSetCoef(coef) ==
    /\ pc = "matrix"
    /\ iterator.inner
    /\ LET r == setCoef(coefs, iterator, coef)
       IN  /\ coefs' = r.coefs
           /\ iterator' = r.it
    /\ UNCHANGED <<rows, cols>>
    /\ matrixFrame

InitMatrix ==
    /\ rows = AllZero
    /\ cols = <<>>
    /\ coefs = <<>>
    /\ nextRowIdx = 0
    /\ finalized = FALSE
    /\ pc = "matrix"
    /\ caller = "api"
    /\ pyErr = "none"
    /\ retval = "None"
    /\ method = "none"
    /\ reducer = "none"
    /\ threshold = 0
    /\ sources = <<>>
    /\ i = 0
    /\ from = 0
    /\ iterator = NullIterator
    /\ achievables = AllFalse
    /\ stack = <<>>
    /\ orderedQueue = <<>>
    /\ pathsLengths = AllZero
    /\ result = AllFalse
    /\ exc = "none"
    /\ resultBitmap = <<>>
    /\ resultArray = <<>>
    /\ outOfArrayWrites = {}
    /\ finalizeCalls = 1
    /\ runs = 0
    /\ coefs0 = <<>>
    /\ previous = NoPrevious
    /\ dense = NotAdded
    /\ NoCollection

NextMatrix ==
    \/ \E from_ \in Indices, to \in Indices, coef \in CoefValues : matrixSetCoef(from_, to, coef)
    \/ \E from_ \in Indices, to \in Indices : matrixGetNeighboursIterator(from_, to)
    \/ \E from_ \in Indices, to \in Indices : matrixReplaceNeighboursIterator(from_, to)
    \/ iteratorIncrement
    \/ iteratorDecrement
    \/ \E coef \in CoefValues : iteratorSetCoef(coef)

SpecMatrix == InitMatrix /\ [][NextMatrix]_vars

\* setCoef alone on a built matrix.
NextSetCoef ==
    \E from_ \in Indices, to \in Indices, coef \in CoefValues : matrixSetCoef(from_, to, coef)

SpecSetCoef == InitMatrix /\ [][NextSetCoef]_vars

\* the host module, the matrix and the reducers are not in use
NoHost ==
    /\ rows = AllZero
    /\ cols = <<>>
    /\ coefs = <<>>
    /\ nextRowIdx = 0
    /\ finalized = FALSE
    /\ caller = "api"
    /\ pyErr = "none"
    /\ retval = "None"
    /\ method = "none"
    /\ reducer = "none"
    /\ threshold = 0
    /\ sources = <<>>
    /\ i = 0
    /\ from = 0
    /\ iterator = NullIterator
    /\ achievables = AllFalse
    /\ stack = <<>>
    /\ orderedQueue = <<>>
    /\ pathsLengths = AllZero
    /\ result = AllFalse
    /\ exc = "none"
    /\ resultBitmap = <<>>
    /\ resultArray = <<>>
    /\ outOfArrayWrites = {}
    /\ finalizeCalls = 0
    /\ runs = 0
    /\ coefs0 = <<>>
    /\ previous = NoPrevious
    /\ dense = NotAdded

\* A bitmap used on its own, next to the plain list of booleans that the
\* same calls give.  A call that is out of range for the list leaves it.
collectionFrame ==
    UNCHANGED <<matrixVars, callVars, argVars, i, from, iterator, drgVars, drgepVars,
                exc, outVars, auxVars, dense>>

ListInsert(list, idx, v) == IF idx > Len(list) THEN list ELSE InsertAt(list, idx, v)
ListRemove(list, idx) ==
    IF idx >= Len(list) THEN list
    ELSE SubSeq(list, 1, idx) \o SubSeq(list, idx + 2, Len(list))
ListReplace(list, idx, v) == IF idx >= Len(list) THEN list ELSE Upd(list, idx, v)

bitmapInsert(idx, element) ==
    /\ pc = "bitmap"
    /\ container.size < MaxBits /\ Len(reference) < MaxBits
    /\ \E wide \in WideShifts :
         LET r == Bitmap_insert(container, idx, element, wide)
         IN  /\ container' = r.bitmap
             /\ returned' = [err |-> r.err, val |-> FALSE]
    /\ reference' = ListInsert(reference, idx, element)
    /\ collectionFrame

bitmapRemove(idx) ==
    /\ pc = "bitmap"
    /\ \E wide \in WideShifts :
         LET r == Bitmap_remove(container, idx, wide)
         IN  /\ container' = r.bitmap
             /\ returned' = [err |-> r.err, val |-> r.val]
    /\ reference' = ListRemove(reference, idx)
    /\ collectionFrame

bitmapReplace(idx, element) ==
    /\ pc = "bitmap"
    /\ LET r == Bitmap_replace(container, idx, element)
       IN  /\ container' = r.bitmap
           /\ returned' = [err |-> r.err, val |-> r.val]
    /\ reference' = ListReplace(reference, idx, element)
    /\ collectionFrame

\* bitmap[idx] = element
bitmapWrite(idx, element) ==
    /\ pc = "bitmap"
    /\ LET r == Bitmap_replace(container, idx, element)
       IN  /\ container' = r.bitmap
           /\ returned' = [err |-> r.err, val |-> FALSE]
    /\ reference' = ListReplace(reference, idx, element)
    /\ collectionFrame

bitmapClear ==
    /\ pc = "bitmap"
    /\ container' = Bitmap_clear(container)
    /\ returned' = [err |-> "none", val |-> FALSE]
    /\ reference' = <<>>
    /\ collectionFrame

InitBitmap ==
    /\ \E size \in 0 .. MaxBits, value \in BOOLEAN :
         /\ container = Bitmap(size, value)
         /\ reference = [k \in 1 .. size |-> value]
    /\ returned = [err |-> "none", val |-> FALSE]
    /\ pc = "bitmap"
    /\ NoHost

NextBitmap ==
    \/ \E idx \in 0 .. MaxBits, element \in BOOLEAN : bitmapInsert(idx, element)
    \/ \E idx \in 0 .. MaxBits : bitmapRemove(idx)
    \/ \E idx \in 0 .. MaxBits, element \in BOOLEAN : bitmapReplace(idx, element)
    \/ \E idx \in 0 .. MaxBits, element \in BOOLEAN : bitmapWrite(idx, element)
    \/ bitmapClear

SpecBitmap == InitBitmap /\ [][NextBitmap]_vars

\* A sectioned collection of a trivial element type used on its own, next
\* to the plain list that the same calls give.
ElementValues == {1, 2}

\* SectionedCollection(size, value, allocator, sectionSize)
SectionedCollection(size, value, sectionSize) ==
    [sections |-> [k \in 1 .. (size + sectionSize - 1) \div sectionSize |->
                     [j \in 1 .. (IF k * sectionSize <= size THEN sectionSize
                                  ELSE size - (k - 1) * sectionSize) |-> value]],
     size |-> size,
     sectionSize |-> sectionSize]

\* SectionedCollection(allocated, allocator, sectionSize)
SectionedCollection_allocated(allocated, sectionSize) ==
    [sections |-> [k \in 1 .. (allocated + sectionSize - 1) \div sectionSize |-> <<>>],
     size |-> 0,
     sectionSize |-> sectionSize]

sectionedInsert(idx, element) ==
    /\ pc = "sectioned"
    /\ container.size < MaxElements /\ Len(reference) < MaxElements
    /\ LET r == insertCopy(container, idx, element)
       IN  /\ container' = r.c
           /\ returned' = [err |-> r.err, val |-> 0]
    /\ reference' = ListInsert(reference, idx, element)
    /\ collectionFrame

\* insert through IndexableCollection<T>::insert(size_t, T&&)
sectionedInsertMove(idx, element) ==
    /\ pc = "sectioned"
    /\ container.size < MaxElements /\ Len(reference) < MaxElements
    /\ LET r == insertMove(container, idx, element)
       IN  /\ container' = r.c
           /\ returned' = [err |-> r.err, val |-> 0]
    /\ reference' = ListInsert(reference, idx, element)
    /\ collectionFrame

sectionedAppend(element) ==
    /\ pc = "sectioned"
    /\ container.size < MaxElements /\ Len(reference) < MaxElements
    /\ LET r == insertCopy(container, container.size, element)
       IN  /\ container' = r.c
           /\ returned' = [err |-> r.err, val |-> 0]
    /\ reference' = Append(reference, element)
    /\ collectionFrame

sectionedRemove(idx) ==
    /\ pc = "sectioned"
    /\ LET r == SectionedRemove(container, idx)
       IN  /\ container' = r.c
           /\ returned' = [err |-> r.err, val |-> r.val]
    /\ reference' = ListRemove(reference, idx)
    /\ collectionFrame

sectionedResize(newSpaceSize) ==
    /\ pc = "sectioned"
    /\ LET r == resize(container, newSpaceSize)
       IN  /\ container' = r.c
           /\ returned' = [err |-> r.err, val |-> 0]
    /\ UNCHANGED reference
    /\ collectionFrame

sectionedClear ==
    /\ pc = "sectioned"
    /\ container' = SectionedClear(container)
    /\ returned' = [err |-> "none", val |-> 0]
    /\ reference' = <<>>
    /\ collectionFrame

InitSectioned ==
    /\ \E sectionSize \in 1 .. MaxSectionSize :
         \/ \E size \in 0 .. MaxElements, value \in ElementValues :
              /\ container = SectionedCollection(size, value, sectionSize)
              /\ reference = [k \in 1 .. size |-> value]
         \/ \E allocated \in 0 .. MaxElements :
              /\ container = SectionedCollection_allocated(allocated, sectionSize)
              /\ reference = <<>>
    /\ returned = [err |-> "none", val |-> 0]
    /\ pc = "sectioned"
    /\ NoHost

NextSectioned ==
    \/ \E idx \in 0 .. MaxElements, element \in ElementValues : sectionedInsert(idx, element)
    \/ \E idx \in 0 .. MaxElements, element \in ElementValues :
         sectionedInsertMove(idx, element)
    \/ \E element \in ElementValues : sectionedAppend(element)
    \/ \E idx \in 0 .. MaxElements : sectionedRemove(idx)
    \/ \E newSpaceSize \in 0 .. MaxElements + MaxSectionSize : sectionedResize(newSpaceSize)
    \/ sectionedClear

SpecSectioned == InitSectioned /\ [][NextSectioned]_vars

\* the same collection under insert, append and remove only
NextSectionedList ==
    \/ \E idx \in 0 .. MaxElements, element \in ElementValues : sectionedInsert(idx, element)
    \/ \E element \in ElementValues : sectionedAppend(element)
    \/ \E idx \in 0 .. MaxElements : sectionedRemove(idx)

SpecSectionedList == InitSectioned /\ [][NextSectionedList]_vars

\* ------------------------------------------- DRG::AllocatorForInnerIterators
\* Addresses are positive integers, 0 is nullptr.  The backing allocator is
\* the set of the blocks <<address, size>> it has handed out and not got back.
Addresses == 1 .. (MaxStackSize + ExtraSlots + 1) * MaxIteratorSize
Block(address, size) == address .. address + size - 1

\* the addresses at which the backing allocator can place size bytes
FreeAddresses(heap, size) ==
    {address \in Addresses :
        /\ Block(address, size) \subseteq Addresses
        /\ \A b \in heap : Block(address, size) \cap Block(b[1], b[2]) = {}}

\* AllocatorForInnerIterators(allocator, maxStackSize)
AllocatorForInnerIterators(maxStackSize) ==
    [originalAllocator |-> {},
     space |-> 0,
     freeSpaceBitmap |-> Bitmap(maxStackSize + ExtraSlots, TRUE),
     maxStackSize |-> maxStackSize + ExtraSlots,
     innerIteratorSize |-> 0]

\* the loop of allocate: the first index whose free bit is set, maxStackSize
\* when there is none
RECURSIVE firstFree(_, _)
firstFree(a, idx) ==
    IF ~(idx < a.maxStackSize) THEN a.maxStackSize
    ELSE IF Bitmap_get(a.freeSpaceBitmap, idx).val THEN idx
    ELSE firstFree(a, idx + 1)

\* deallocate that takes the byte offset for the slot index
slotOfOffset_offset(a, offset) == offset

\* idx / innerIteratorSize in deallocate
slotOfOffset(a, offset) == offset \div a.innerIteratorSize

\* AllocatorForInnerIterators::allocate; `address` is what the backing
\* allocator returns if it is called
arenaAllocateResult(a, innerIteratorSize, address) ==
    LET installed == IF a.space = 0
                     THEN [a EXCEPT !.innerIteratorSize = innerIteratorSize,
                                    !.space = address,
                                    !.originalAllocator =
                                        @ \cup {<<address, innerIteratorSize * a.maxStackSize>>}]
                     ELSE a
        idx == firstFree(installed, 0)
    IN  IF a.space # 0 /\ a.innerIteratorSize # innerIteratorSize
        THEN [ptr |-> address,
              a |-> [a EXCEPT !.originalAllocator = @ \cup {<<address, innerIteratorSize>>}]]
        ELSE IF idx < installed.maxStackSize
        THEN [ptr |-> installed.space + idx * installed.innerIteratorSize,
              a |-> [installed EXCEPT !.freeSpaceBitmap = Bitmap_replace(@, idx, FALSE).bitmap]]
        ELSE [ptr |-> address,
              a |-> [installed EXCEPT
                       !.originalAllocator = @ \cup {<<address, innerIteratorSize>>}]]

\* AllocatorForInnerIterators::deallocate
arenaDeallocateResult(a, ptr) ==
    LET idx == ptr - a.space
    IN  IF idx < 0 \/ idx >= a.maxStackSize * a.innerIteratorSize
        THEN [a EXCEPT !.originalAllocator = {b \in @ : b[1] # ptr}]
        ELSE [a EXCEPT !.freeSpaceBitmap = Bitmap_replace(@, slotOfOffset(a, idx), TRUE).bitmap]

\* a caller asks for innerIteratorSize bytes; `reference` is the set of the
\* allocations <<pointer, size>> that callers hold
arenaAllocate(innerIteratorSize) ==
    /\ pc = "arena"
    /\ Cardinality(reference) <= container.maxStackSize
    /\ \E address \in FreeAddresses(container.originalAllocator,
                                      IF container.space = 0
                                      THEN innerIteratorSize * container.maxStackSize
                                      ELSE innerIteratorSize) :
         LET r == arenaAllocateResult(container, innerIteratorSize, address)
         IN  /\ container' = r.a
             /\ reference' = reference \cup {<<r.ptr, innerIteratorSize>>}
             /\ returned' = [err |-> "none", val |-> r.ptr]
    /\ collectionFrame

\* a caller gives back an allocation it holds
arenaDeallocate(ptr) ==
    /\ pc = "arena"
    /\ \E allocation \in reference :
         /\ allocation[1] = ptr
         /\ reference' = reference \ {allocation}
    /\ container' = arenaDeallocateResult(container, ptr)
    /\ returned' = [err |-> "none", val |-> 0]
    /\ collectionFrame

InitArena ==
    /\ \E maxStackSize \in 0 .. MaxStackSize :
         container = AllocatorForInnerIterators(maxStackSize)
    /\ reference = {}
    /\ returned = [err |-> "none", val |-> 0]
    /\ pc = "arena"
    /\ NoHost

NextArena ==
    \/ \E innerIteratorSize \in 1 .. MaxIteratorSize : arenaAllocate(innerIteratorSize)
    \/ \E ptr \in Addresses : arenaDeallocate(ptr)

SpecArena == InitArena /\ [][NextArena]_vars

\* --------------------------------------------- one pass of calcPathLengths
\* One pass of DRGEP::calcPathLengths from vertex 0 over a matrix of N + 1
\* vertices, one neighbour at a time.  The neighbours iterator is taken to
\* give the non-zero entries of a row in column order.  Edges into vertex 0
\* and loops are left out: their product never exceeds the stored length.
PassVertices == 0 .. N
PassEdges == {e \in PassVertices \X PassVertices : e[1] # e[2] /\ e[2] # 0}
PassMatrices ==
    UNION {[edges -> {Half, Unit}] : edges \in {E \in SUBSET PassEdges :
                                                  Cardinality(E) <= MaxPassEdges}}
NoNode == SIZE_MAX
NoOperation == [op |-> "none", queue |-> <<>>, paths |-> <<>>, node |-> NoNode, length |-> 0]

\* the columns after `to` that hold a non-zero entry of row `node`
Remaining(matrix, node, to) ==
    {t \in PassVertices : t >= to /\ <<node, t>> \in DOMAIN matrix}

\* while (orderedQueue.getSize()): the tail is removed and becomes the
\* current vertex
passPop ==
    /\ pc = "pass"
    /\ returned.err = "none"
    /\ container.currentNode = NoNode
    /\ container.orderedQueue # <<>>
    /\ LET queue == container.orderedQueue
           currentNode == queue[Len(queue)]
       IN  /\ container' = [container EXCEPT
                               !.orderedQueue = SubSeq(queue, 1, Len(queue) - 1),
                               !.currentNode = currentNode,
                               !.currentPathLength = At(container.pathsLengths, currentNode),
                               !.to = 0]
           /\ reference' = [op |-> "pop", queue |-> queue,
                            paths |-> container.pathsLengths,
                            node |-> currentNode, length |-> 0]
           /\ returned' = [err |-> "none", val |-> currentNode]
    /\ collectionFrame

\* one turn of the for loop: the next neighbour of the current vertex
passRelax ==
    /\ pc = "pass"
    /\ returned.err = "none"
    /\ container.currentNode # NoNode
    /\ Remaining(container.matrix, container.currentNode, container.to) # {}
    /\ LET neighbour == CHOOSE t \in Remaining(container.matrix, container.currentNode,
                                                container.to) :
                             \A u \in Remaining(container.matrix, container.currentNode,
                                                 container.to) : t <= u
           coef == container.matrix[<<container.currentNode, neighbour>>]
           r == relax(container.orderedQueue, container.pathsLengths, neighbour, coef,
                      container.currentPathLength, container.threshold)
       IN  /\ container' = [container EXCEPT !.orderedQueue = r.queue,
                                              !.pathsLengths = r.paths,
                                              !.to = neighbour + 1]
           /\ reference' = [op |-> r.op, queue |-> container.orderedQueue,
                            paths |-> container.pathsLengths, node |-> neighbour,
                            length |-> Mul(coef, container.currentPathLength)]
           /\ returned' = [err |-> r.err, val |-> neighbour]
    /\ collectionFrame

\* the iterator has stopped: back to the while loop
passRowDone ==
    /\ pc = "pass"
    /\ returned.err = "none"
    /\ container.currentNode # NoNode
    /\ Remaining(container.matrix, container.currentNode, container.to) = {}
    /\ container' = [container EXCEPT !.currentNode = NoNode]
    /\ UNCHANGED <<reference, returned>>
    /\ collectionFrame

\* calcPathLengths up to the while loop: orderedQueue.append(from);
\* pathsLengths[from] = 1
InitPass ==
    /\ \E matrix \in PassMatrices, thr \in Thresholds :
         container = [matrix |-> matrix,
                      threshold |-> thr,
                      orderedQueue |-> <<0>>,
                      pathsLengths |-> [k \in 1 .. N + 1 |-> IF k = 1 THEN Unit ELSE 0],
                      currentNode |-> NoNode,
                      currentPathLength |-> 0,
                      to |-> 0]
    /\ reference = NoOperation
    /\ returned = [err |-> "none", val |-> 0]
    /\ pc = "pass"
    /\ NoHost

NextPass == passPop \/ passRelax \/ passRowDone

SpecPass == InitPass /\ [][NextPass]_vars

\* A growable array is its elements, its allocated size and its block size.
\* DArrayCollection that holds array in whole blocks
DArrayCollection(array, blockSize) ==
    [array |-> array,
     allocated |-> ((Len(array) + blockSize - 1) \div blockSize) * blockSize,
     blockSize |-> blockSize]

\* DArrayCollectionCommonMethods::resize
DArrayResize(d, newSpaceSize) ==
    IF newSpaceSize = d.allocated THEN [err |-> "none", d |-> d]
    ELSE IF newSpaceSize < Len(d.array) THEN [err |-> "out_of_range", d |-> d]
    ELSE [err |-> "none", d |-> [d EXCEPT !.allocated = newSpaceSize]]

\* DArrayCollectionCommonMethods::clear: ArrayCollection::clear, then
\* truncate(), which is resize(getSize())
DArrayClear(d) == DArrayResize([d EXCEPT !.array = <<>>], 0).d

\* DArrayCollectionCommonMethods::insert
DArrayInsert(d, idx, element) ==
    IF Len(d.array) < d.allocated
    THEN LET r == ArrayInsert(d.array, d.allocated, idx, element)
         IN  [err |-> r.err, d |-> [d EXCEPT !.array = r.array]]
    ELSE IF idx > Len(d.array) THEN [err |-> "out_of_range", d |-> d]
    ELSE [err |-> "none",
          d |-> [d EXCEPT !.array = InsertAt(@, idx, element),
                          !.allocated = ((Len(d.array) + 1 + d.blockSize - 1)
                                         \div d.blockSize) * d.blockSize]]

\* ------------------------------------------------------------- properties
Vertices == 0 .. N - 1
AllTrue == [k \in 1 .. N |-> TRUE]
Retained(bitmap) == {k \in Vertices : At(bitmap, k)}
SourceSet == {At(sources, k) : k \in 0 .. Len(sources) - 1}
Running == {"removeEdges", "drgSources", "checkAchievables", "drgepSources",
            "calcPathLengths", "pfa", "returned", "thrown", "hang"}
FirstRun(red) == caller = "api" /\ reducer = red /\ ~previous.done

\* the coefficient stored for (u, v) in the finalized matrix, 0 if none
EdgeWeight(cf, u, v) ==
    LET start == IF u = 0 THEN 0 ELSE At(rows, u - 1)
        ks == {k \in start .. At(rows, u) - 1 : At(cols, k) = v}
    IN  IF ks = {} THEN 0 ELSE At(cf, CHOOSE k \in ks : TRUE)

\* vertices reachable from S along non-zero edges with coefficient >= thr
RECURSIVE ReachFrom(_, _, _)
ReachFrom(S, cf, thr) ==
    LET S2 == S \cup {v \in Vertices :
                        \E u \in S : EdgeWeight(cf, u, v) # 0 /\ EdgeWeight(cf, u, v) >= thr}
    IN  IF S2 = S THEN S ELSE ReachFrom(S2, cf, thr)

\* maximum over the paths of at most n edges from s of the product of the
\* coefficients, as a function of the end vertex
RECURSIVE BestProduct(_, _, _)
BestProduct(cf, s, n) ==
    IF n = 0 THEN [v \in Vertices |-> IF v = s THEN Unit ELSE 0]
    ELSE LET p == BestProduct(cf, s, n - 1)
             Best(S) == CHOOSE x \in S : \A y \in S : y <= x
         IN  [v \in Vertices |->
                Best({p[v]} \cup {Mul(p[u], EdgeWeight(cf, u, v)) : u \in Vertices})]

\* C1: when DRG::run returns, the set bits of the bitmap are exactly the
\* vertices reachable from the sources along stored edges whose coefficient
\* is >= threshold.
C1_DrgRetainsExactlyStrongReach ==
    (FirstRun("DRG") /\ pc = "returned" /\ SourceSet \subseteq Vertices)
        => Retained(resultBitmap) = ReachFrom(SourceSet, coefs0, threshold)

\* C2: when DRG::removeEdges has walked every row, every coefficient that was
\* below the threshold is 0, every other coefficient is what it was, and the
\* walk ends without an error.
C2_RemoveEdgesPostcondition ==
    FirstRun("DRG") =>
        /\ (pc \in {"thrown", "hang"}) => (from = N)
        /\ (pc = "drgSources" /\ i = 0) =>
              /\ Len(coefs) = Len(coefs0)
              /\ \A k \in 1 .. Len(coefs0) :
                    coefs[k] = IF coefs0[k] < threshold THEN 0 ELSE coefs0[k]

\* C3: when a per-source pass of DRGEP (calcPathLengths) finishes without
\* error, paths[s] = 1 and paths[u] is the maximum product of coefficients
\* over the paths from s to u if that is >= threshold, and 0 otherwise.
C3_PathsAreMaximumProducts ==
    (FirstRun("DRGEP") /\ pc = "calcPathLengths" /\ Len(orderedQueue) = 0)
        => LET best == BestProduct(coefs0, At(sources, i), N)
           IN  \A u \in Vertices :
                  At(pathsLengths, u) = IF best[u] >= threshold THEN best[u] ELSE 0

\* C4: every vertex retained by DRGEP::run is a source or has a directed path
\* of non-zero edges from a source, for every threshold, 0 included.
C4_DrgepRetainsOnlyReachable ==
    (FirstRun("DRGEP") /\ pc = "returned" /\ SourceSet \subseteq Vertices)
        => Retained(resultBitmap) \subseteq ReachFrom(SourceSet, coefs0, 0)

\* C5: two DRGEP runs on the same matrix and sources with thresholds
\* t1 <= t2 both complete, and what the second retains the first retained.
C5_DrgepMonotone ==
    (caller = "api" /\ reducer = "DRGEP" /\ SourceSet \subseteq Vertices)
        => /\ pc \notin {"thrown", "hang"}
           /\ (pc = "returned" /\ previous.done)
                 => Retained(resultBitmap) \subseteq Retained(previous.bitmap)

\* C6: DRG or DRGEP with threshold 0 and all the vertices as sources returns,
\* without error, a bitmap of length N with every bit set.
C6_ZeroThresholdAllSources ==
    (caller = "api" /\ ~previous.done /\ threshold = 0 /\ sources = AllVertices)
        => /\ pc \notin {"thrown", "hang"}
           /\ pc = "returned" => resultBitmap = AllTrue

\* C7: run_reducing executes the reducer that the method name names, and for
\* a name that is none of "DRG", "DRGEP", "PFA" it executes no reducer.
C7_DispatchOnMethodName ==
    (caller = "host" /\ pc \in Running)
        => /\ method \in {"DRG", "DRGEP", "PFA"}
           /\ reducer = method

\* C8: run_reducing on a matrix for which finalize has not been called runs
\* no reducer and returns no array; once finalize has been called the call
\* is accepted, that is, the reducer runs with no error set.
C8_RunRequiresFinalize ==
    caller = "host" =>
        /\ finalizeCalls = 0 => (pc = "idle" /\ retval # "array")
        /\ (finalizeCalls > 0 /\ pc \in Running) => pyErr = "none"

\* C9: after finalize has been called, every add_row call fails and leaves
\* row_end, col, coef and the next-row cursor unchanged.
C9_AddRowAfterFinalizeRejected ==
    [][(finalizeCalls > 0 /\ add_row(MaxEdges))
          => (pyErr' # "none" /\ retval' = "NULL" /\ UNCHANGED matrixVars)]_vars

\* C10: the array run_reducing returns has as many elements as the bitmap
\* has set bits, is strictly increasing, holds exactly the indices of the
\* set bits, and nothing was written outside it.
C10_ArrayIsSortedRetained ==
    (caller = "host" /\ retval = "array")
        => /\ Len(resultArray) = countBits(resultBitmap, TRUE)
           /\ \A k \in 1 .. Len(resultArray) - 1 : resultArray[k] < resultArray[k + 1]
           /\ {resultArray[k] : k \in 1 .. Len(resultArray)} = Retained(resultBitmap)
           /\ outOfArrayWrites = {}

\* C11: add_row accepts a row index only when it is strictly greater than
\* every row index added before; an index lower than or equal to an added
\* one fails with ValueError (InvalidArgument) and leaves row_end, col, coef
\* and the next-row cursor unchanged; an index that skips rows is accepted.
AddedRows == {r \in 0 .. N - 1 : dense[r] # <<>>}
C11_AddRowStrictlyAscending ==
    [][\A rowIdx \in Indices, data \in [1 .. N -> CoefValues] :
         add_row_call(MaxEdges, rowIdx, data) =>
           IF \E r \in AddedRows : rowIdx <= r
           THEN pyErr' = "ValueError" /\ retval' = "NULL" /\ UNCHANGED matrixVars
           ELSE rowIdx < N =>
                  /\ pyErr' = "none" /\ retval' = "None"
                  /\ nextRowIdx' = rowIdx + 1
                  /\ AddedRows' = AddedRows \cup {rowIdx}]_vars
\* a row was skipped, a later row was added, and an add_row was then refused
C11_Witness ==
    /\ pyErr = "ValueError" /\ retval = "NULL"
    /\ 0 \notin AddedRows /\ 1 \in AddedRows
    /\ finalizeCalls = 0

\* C12: builder round trip.  The first finalize() after add_row calls on a
\* new matrix leaves a matrix where at(i, j) is the j-th element of the row
\* given for every added row i, 0 for every row that was not added, and
\* row_end[i] is the number of non-zero entries of the added rows up to i.
RECURSIVE NonZerosUpTo(_)
NonZerosUpTo(r) ==
    IF r < 0 THEN 0
    ELSE NonZerosUpTo(r - 1) + (IF r \in AddedRows THEN Len(NonZeroCols(dense[r])) ELSE 0)
RoundTrip ==
    \A r \in 0 .. N - 1 :
      /\ At(rows, r) = NonZerosUpTo(r)
      /\ \A c \in 0 .. N - 1 :
           at(rows, cols, coefs, r, c)
             = [err |-> "none", val |-> IF r \in AddedRows THEN dense[r][c + 1] ELSE 0]
C12_BuilderRoundTrip == [][(finalizeCalls = 0 /\ finalize) => RoundTrip']_vars
\* one finalize after rows 0 and 2 were added, row 1 skipped, and the entry
\* (2, 1) reads back
C12_Witness ==
    /\ finalizeCalls = 1 /\ AddedRows = {0, 2} /\ RoundTrip
    /\ Len(cols) = MaxEdges
    /\ at(rows, cols, coefs, 2, 1).val = Half

\* C13: a reducer run on a list of sources that holds an index s >= N
\* (s = N included) ends with the index error (out_of_range) and never
\* returns a bitmap.
OutOfRangeSource == \E k \in 1 .. Len(sources) : sources[k] >= N
C13_OutOfRangeSourceRejected ==
    (caller = "api" /\ OutOfRangeSource) =>
        /\ pc \notin {"returned", "hang"}
        /\ pc = "thrown" => exc = "out_of_range"

\* C14: CSR well-formedness after finalize and after every setCoef on the
\* matrix and every coefficient write through an iterator: row_end is
\* non-decreasing, col is strictly increasing within every row slice, and
\* row_end[N - 1] = len(col) = len(coef).
rowStart(r) == IF r # 0 THEN At(rows, r - 1) ELSE 0
WellFormed ==
    /\ \A r \in 0 .. N - 1 : rowStart(r) <= At(rows, r)
    /\ \A r \in 0 .. N - 1 :
         \A k \in rowStart(r) + 1 .. At(rows, r) - 1 : At(cols, k - 1) < At(cols, k)
    /\ At(rows, N - 1) = Len(cols)
    /\ Len(cols) = Len(coefs)
C14_WellFormedInvariant == pc = "matrix" => WellFormed
\* setCoef stored entries across a section boundary, all in row 0, and an
\* iterator then wrote a zero
C14_Witness ==
    /\ pc = "matrix" /\ WellFormed
    /\ Len(cols) = MaxStored /\ MaxStored > SectionSize
    /\ At(rows, 0) = MaxStored
    /\ iterator.inner /\ iterator.stopped /\ iterator.idx = 0 /\ At(coefs, 0) = 0

\* C15: get/set round trip.  For i, j in [0, N) and v # 0, on a well-formed
\* matrix (entry stored or not, row empty or not), setCoef(i, j, v) followed
\* by at(i, j) returns v.
C15_SetThenAt ==
    (pc = "matrix" /\ WellFormed) =>
        \A from_ \in 0 .. N - 1, to \in 0 .. N - 1, coef \in CoefValues \ {0} :
            LET r == CSRAdjacencyMatrix_setCoef(rows, cols, coefs, from_, to, coef)
            IN  /\ r.err = "none"
                /\ at(r.rows, r.cols, r.coefs, from_, to) = [err |-> "none", val |-> coef]
\* setCoef stored MaxStored entries in row 1, across a section boundary
C15_Witness ==
    /\ pc = "matrix" /\ Len(cols) = MaxStored /\ MaxStored > SectionSize
    /\ rowStart(1) = 0 /\ At(rows, 1) = MaxStored
    /\ \A c \in 0 .. MaxStored - 1 :
         at(rows, cols, coefs, 1, c) = [err |-> "none", val |-> Half]

\* C16: when at(i, j) is 0 (entry absent, or stored with coefficient 0),
\* setCoef(i, j, 0) returns 0 and leaves row_end, col and coef identical.
C16_ZeroSetOnZeroIsNoOp ==
    (pc = "matrix" /\ WellFormed) =>
        \A from_ \in 0 .. N - 1, to \in 0 .. N - 1 :
            at(rows, cols, coefs, from_, to) = [err |-> "none", val |-> 0] =>
                LET r == CSRAdjacencyMatrix_setCoef(rows, cols, coefs, from_, to, 0)
                IN  /\ r.err = "none" /\ r.old = 0
                    /\ r.rows = rows /\ r.cols = cols /\ r.coefs = coefs
\* row 0 holds a stored entry (0, 1) whose coefficient setCoef made 0, next
\* to an absent entry (0, 0) and a non-zero entry
C16_Witness ==
    /\ pc = "matrix" /\ WellFormed
    /\ At(rows, 0) = 2 /\ At(cols, 0) = 1 /\ At(coefs, 0) = 0 /\ At(coefs, 1) # 0
    /\ at(rows, cols, coefs, 0, 0).val = 0 /\ at(rows, cols, coefs, 0, 1).val = 0

\* C17: at, setCoef, getNeighboursIterator and replaceNeighboursIterator
\* called with from >= N or to >= N fail with the index error (out_of_range)
\* and leave row_end, col and coef unchanged.
C17_OutOfRangeIndexRejected ==
    pc = "matrix" =>
        \A from_ \in Indices, to \in Indices :
            (from_ >= N \/ to >= N) =>
                /\ at(rows, cols, coefs, from_, to).err = "out_of_range"
                /\ \A coef \in CoefValues :
                     LET r == CSRAdjacencyMatrix_setCoef(rows, cols, coefs, from_, to, coef)
                     IN  /\ r.err = "out_of_range"
                         /\ r.rows = rows /\ r.cols = cols /\ r.coefs = coefs
                /\ \A g \in Garbage :
                     /\ getNeighboursIterator(rows, cols, from_, to, g).err = "out_of_range"
                     /\ replaceNeighboursIterator(rows, cols, from_, to, iterator, g).err
                          = "out_of_range"

\* C18: an iterator created by getNeighboursIterator(from, starting_to) is
\* stopped at once when the row is empty or every stored entry of the row
\* with column >= starting_to has coefficient 0, and an iterator that is not
\* stopped is on an entry with a non-zero coefficient.
NoNonZeroFrom(r, to) ==
    \A k \in rowStart(r) .. At(rows, r) - 1 : At(cols, k) >= to => At(coefs, k) = 0
C18_FreshIteratorSkipsZeros ==
    (pc = "matrix" /\ WellFormed) =>
        \A from_ \in 0 .. N - 1, to \in 0 .. N - 1, g \in Garbage :
            LET r == getNeighboursIterator(rows, cols, from_, to, g)
            IN  /\ r.err = "none"
                /\ NoNonZeroFrom(from_, to) => r.it.stopped
                /\ ~r.it.stopped => getCoef(coefs, r.it).val # 0

\* C19: active-state invariant of the iterator.  Creation and re-seating
\* establish it, and ++, -- and setCoef through the iterator keep it:
\* whenever the iterator is not stopped, row_start(from) <= idx <
\* row_end[from] and coef[idx] # 0, from being the row the iterator reports.
ActiveOrStopped(it) ==
    (it.inner /\ ~it.stopped) =>
        /\ it.from < N
        /\ rowStart(it.from) <= it.idx /\ it.idx < At(rows, it.from)
        /\ At(coefs, it.idx) # 0
C19_ActiveStateInvariant ==
    [][/\ (\E from_ \in 0 .. N - 1, to \in 0 .. N - 1 :
             \/ matrixGetNeighboursIterator(from_, to)
             \/ matrixReplaceNeighboursIterator(from_, to))
           => ActiveOrStopped(iterator)'
       /\ (/\ ActiveOrStopped(iterator)
           /\ \/ iteratorIncrement
              \/ iteratorDecrement
              \/ \E coef \in CoefValues : iteratorSetCoef(coef))
           => ActiveOrStopped(iterator)']_vars

\* C20: setCoef(0) through an iterator that is not stopped writes 0 to the
\* backing coef at the cursor, returns the old coefficient, and the next ++
\* leaves the iterator stopped.
C20_ZeroWriteStopsOnAdvance ==
    [][(iterator.inner /\ ~iterator.stopped /\ iteratorSetCoef(0)) =>
          /\ setCoef(coefs, iterator, 0).old = At(coefs, iterator.idx)
          /\ coefs' = Upd(coefs, iterator.idx, 0)
          /\ Increment(rows', coefs', iterator').err = "none"
          /\ Increment(rows', coefs', iterator').it.stopped]_vars

\* the bits of a bitmap as a plain list
BitmapList(bitmap) == [k \in 1 .. bitmap.size |-> Bitmap_get(bitmap, k - 1).val]

\* C21: on any bitmap, insert(i, v) followed by remove(i) returns v and
\* leaves the bitmap with the same size and the same get(k) for every k,
\* also when i is on a section boundary or the bitmap spans several sections.
C21_InsertRemoveInverse ==
    pc = "bitmap" =>
        \A idx \in 0 .. container.size, v \in BOOLEAN, w1 \in WideShifts, w2 \in WideShifts :
            LET a == Bitmap_insert(container, idx, v, w1)
                b == Bitmap_remove(a.bitmap, idx, w2)
            IN  /\ a.err = "none" /\ b.err = "none"
                /\ b.val = v
                /\ b.bitmap.size = container.size
                /\ BitmapList(b.bitmap) = BitmapList(container)

\* C22: after every insert, remove, replace and write through operator[],
\* size() and get(k) of the bitmap equal those of the plain list of booleans
\* that received the same calls (so remove makes the size one smaller).
C22_BitmapRefinesList ==
    pc = "bitmap" =>
        /\ container.size = Len(reference)
        /\ BitmapList(container) = reference

\* C23: countBits(B, true) is the number of true bits in [0, size),
\* countBits(B, false) the number of false ones, and they add up to size;
\* bits of the last section beyond size are not counted.
C23_CountBitsExact ==
    pc = "bitmap" =>
        /\ countBits_Bitmap(container, TRUE)
             = Cardinality({k \in 0 .. container.size - 1 : Bitmap_get(container, k).val})
        /\ countBits_Bitmap(container, FALSE)
             = Cardinality({k \in 0 .. container.size - 1 : ~Bitmap_get(container, k).val})
        /\ countBits_Bitmap(container, TRUE) + countBits_Bitmap(container, FALSE)
             = container.size

\* a bitmap of three bits in two sections, the unused bit of the last
\* section set, and mixed values among the used ones
C23_Witness ==
    /\ pc = "bitmap"
    /\ container.size = BITS_COUNT_IN_SECTION + 1
    /\ Len(container.boolSections) = 2
    /\ getBit(At(container.boolSections, 1), BITS_COUNT_IN_SECTION - 1)
    /\ countBits_Bitmap(container, TRUE) = 2
    /\ countBits_Bitmap(container, FALSE) = container.size - 2


\* the elements of a sectioned collection as operator[] gives them
SectionedList(c) == [k \in 1 .. c.size |-> SectionedGet(c, k - 1).val]

\* elements are packed to the front: a section holds sectionSize elements
\* when the size reaches past it, the rest of the size when the size ends in
\* it, and nothing when it is spare
Shape(c) ==
    /\ \A k \in 1 .. Len(c.sections) :
         Len(c.sections[k]) =
             IF k * c.sectionSize <= c.size THEN c.sectionSize
             ELSE IF (k - 1) * c.sectionSize < c.size THEN c.size - (k - 1) * c.sectionSize
             ELSE 0
    /\ Len(Elements(c.sections)) = c.size

C25_SectionedRefinesList ==
    pc = "sectioned" =>
        /\ container.size = Len(reference)
        /\ SectionedList(container) = reference
        /\ returned.err \in {"none", "out_of_range"}

\* C26: resize(n) with n >= size() leaves size() and the elements unchanged
\* and makes allocated() equal to ceil(n / S) * S, whatever the number of
\* sections to add or drop; resize(n) with n < size() fails with
\* invalid_argument and changes nothing.
C26_ResizeExact ==
    pc = "sectioned" =>
        \A newSpaceSize \in 0 .. MaxElements + MaxSectionSize :
            LET r == resize(container, newSpaceSize)
                S == container.sectionSize
            IN  IF newSpaceSize < container.size
                THEN r.err = "invalid_argument" /\ r.c = container
                ELSE /\ r.err = "none"
                     /\ r.c.size = container.size
                     /\ SectionedList(r.c) = SectionedList(container)
                     /\ getAllocatedSize(r.c) = ((newSpaceSize + S - 1) \div S) * S

\* C27: clear() on a segmented sequence and on a growable array sets
\* size() to 0 and leaves allocated() unchanged; a following append(v)
\* succeeds and makes get(0) equal to v.
C27_ClearKeepsAllocated ==
    pc = "sectioned" =>
        LET c == SectionedClear(container)
            d == DArrayCollection(Elements(container.sections), container.sectionSize)
            e == DArrayClear(d)
        IN  /\ c.size = 0
            /\ getAllocatedSize(c) = getAllocatedSize(container)
            /\ \A v \in ElementValues :
                 LET r == insertCopy(c, c.size, v)
                 IN  r.err = "none" /\ SectionedGet(r.c, 0) = [err |-> "none", val |-> v]
            /\ Len(e.array) = 0
            /\ e.allocated = d.allocated
            /\ \A v \in ElementValues :
                 LET r == DArrayInsert(e, Len(e.array), v)
                 IN  r.err = "none" /\ r.d.array[1] = v


\* the slots of the arena and the bytes of one slot
Slots(a) == 0 .. a.maxStackSize - 1
SlotBlock(a, slot) == Block(a.space + slot * a.innerIteratorSize, a.innerIteratorSize)
InArena(a, ptr) ==
    a.space # 0 /\ ptr \in Block(a.space, a.maxStackSize * a.innerIteratorSize)

\* C28: over any sequence of allocate and deallocate calls on the iterator
\* arena no two live allocations share a byte; a slot's free bit is clear
\* exactly when one live allocation of the installed size starts at that
\* slot; and the live allocations outside the arena are exactly the blocks
\* the backing allocator has handed out besides the arena itself.
C28_ArenaExclusivity ==
    pc = "arena" =>
        /\ \A p \in reference, q \in reference :
             p # q => Block(p[1], p[2]) \cap Block(q[1], q[2]) = {}
        /\ container.space # 0 =>
             \A slot \in Slots(container) :
                 ~Bitmap_get(container.freeSpaceBitmap, slot).val
                     <=> <<container.space + slot * container.innerIteratorSize,
                           container.innerIteratorSize>> \in reference
        /\ container.space = 0 => reference = {}
        /\ {p \in reference : ~InArena(container, p[1])}
             = {b \in container.originalAllocator : b[1] # container.space}
        /\ \A p \in reference :
             InArena(container, p[1]) =>
                 \E slot \in Slots(container) : Block(p[1], p[2]) = SlotBlock(container, slot)

\* every slot is taken, one more allocation of the slot size is live in the
\* backing allocator, and one of another size
C28_Witness ==
    /\ pc = "arena"
    /\ container.space # 0
    /\ container.innerIteratorSize = 2
    /\ \A slot \in Slots(container) : ~Bitmap_get(container.freeSpaceBitmap, slot).val
    /\ \E p \in reference : ~InArena(container, p[1]) /\ p[2] = 2
    /\ returned.val # 0


\* queue is ascending by the key (paths[v], v)
KeyLess(paths, v, w) ==
    At(paths, v) < At(paths, w) \/ (At(paths, v) = At(paths, w) /\ v < w)
SortedByKey(queue, paths) ==
    \A a \in 1 .. Len(queue), b \in 1 .. Len(queue) :
        a < b => KeyLess(paths, queue[a], queue[b])
ToSet(queue) == {queue[k] : k \in 1 .. Len(queue)}

C30_RelocationSucceeds ==
    (/\ pc = "pass"
     /\ reference.op = "update"
     /\ reference.node \in ToSet(reference.queue)
     /\ At(reference.paths, reference.node) > 0
     /\ reference.length > At(reference.paths, reference.node)
     /\ reference.length >= container.threshold)
    => /\ returned.err = "none"
       /\ ToSet(container.orderedQueue) = ToSet(reference.queue)
       /\ Len(container.orderedQueue) = Len(reference.queue)
       /\ At(container.pathsLengths, reference.node) = reference.length


\* C31: ++ and -- are mutual inverses on an iterator that is not stopped:
\* ++ followed by -- returns it to the same entry with stopped = FALSE (also
\* when ++ ran past the end of the row), and -- followed by ++ returns it to
\* the same entry with stopped = FALSE (also when -- stopped at the row start
\* and ++ takes the resume transition).  Neither operator writes coefs.
SameEntry(r, it) == r.err = "none" /\ r.it.idx = it.idx /\ ~r.it.stopped
C31_AdvanceRetreatInverse ==
    (pc = "matrix" /\ iterator.inner /\ ~iterator.stopped) =>
        LET advanced == Increment(rows, coefs, iterator)
            retreated == Decrement(rows, coefs, iterator)
        IN  /\ advanced.err = "none"
            /\ SameEntry(Decrement(rows, coefs, advanced.it), iterator)
            /\ retreated.err = "none"
            /\ SameEntry(Increment(rows, coefs, retreated.it), iterator)


\* C32: replaceNeighboursIterator(from, to, it) on an iterator that already
\* holds an inner cursor leaves it in the state of a new
\* getNeighboursIterator(from, to): the same stopped(), from(), cursor (hence
\* to() and coef()) and therefore the same result of every later ++ and --,
\* whatever row and state the iterator had before.  The values of the
\* unassigned member `from` in the two constructions are independent.
C32_ReseatEqualsFresh ==
    (pc = "matrix" /\ iterator.inner) =>
        \A from_ \in 0 .. N - 1, to \in 0 .. N - 1, g1 \in Garbage, g2 \in Garbage :
            LET reseated == replaceNeighboursIterator(rows, cols, from_, to, iterator, g1)
                fresh == getNeighboursIterator(rows, cols, from_, to, g2)
            IN  /\ reseated = fresh
                /\ Increment(rows, coefs, reseated.it) = Increment(rows, coefs, fresh.it)
                /\ Decrement(rows, coefs, reseated.it) = Decrement(rows, coefs, fresh.it)

\* C33: an iterator created or re-seated for row `from` is bound to that
\* row: from() returns `from`, the cursor is in [row_start(from),
\* row_end[from]], and ++, -- and setCoef through the iterator keep from()
\* and keep the cursor in that range.
InRow(it, r) == it.from = r /\ rowStart(r) <= it.idx /\ it.idx <= At(rows, r)
C33_IteratorBoundToRow ==
    [][\A r \in 0 .. N - 1 :
         /\ (\E to \in 0 .. N - 1 :
               \/ matrixGetNeighboursIterator(r, to)
               \/ matrixReplaceNeighboursIterator(r, to))
             => InRow(iterator', r)
         /\ (/\ iterator.inner /\ InRow(iterator, r)
             /\ \/ iteratorIncrement
                \/ iteratorDecrement
                \/ \E coef \in CoefValues : iteratorSetCoef(coef))
             => InRow(iterator', r)]_vars

\* C34: during a DRG run a vertex is pushed on the stack only while it is
\* not marked in achievables and is marked by the same step, marks are never
\* cleared, so the vertices on the stack are distinct and marked, the stack
\* never holds more than N pairs, and the append on the stack of capacity N
\* never throws (the only invalid_argument of the run is the source check).
Pushes ==
    /\ Len(stack') = Len(stack) + 1
    /\ ~At(achievables, stack'[Len(stack')].node)
    /\ At(achievables', stack'[Len(stack')].node)
dfsPush(a, st, node, g, address) ==
    LET r == getNeighboursIterator(rows, cols, node, 0, g)
        m == arenaAllocateResult(a, IteratorSize, address)
    IN  IF node >= N THEN [err |-> "out_of_range", a |-> a, stack |-> st]
        ELSE IF r.err # "none" THEN [err |-> r.err, a |-> m.a, stack |-> st]
        ELSE IF Len(st) = N
        THEN [err |-> "invalid_argument", a |-> arenaDeallocateResult(m.a, m.ptr), stack |-> st]
        ELSE [err |-> "none", a |-> m.a,
              stack |-> Append(st, [node |-> node, it |-> r.it, ptr |-> m.ptr])]

\* ~ArrayCollection<Pair> during unwinding: every pair still on the stack is
\* destroyed and its iterator deallocated
RECURSIVE destroyStack(_, _)
destroyStack(a, st) ==
    IF Len(st) = 0 THEN a
    ELSE destroyStack(arenaDeallocateResult(a, st[Len(st)].ptr), SubSeq(st, 1, Len(st) - 1))

\* what the backing allocator can return to the arena's next allocate: room
\* for the whole arena the first time, for one iterator afterwards
BackingAddresses ==
    FreeAddresses(container.originalAllocator,
                  IF container.space = 0 THEN IteratorSize * container.maxStackSize
                  ELSE IteratorSize)

dfsFrame ==
    UNCHANGED <<matrixVars, caller, pyErr, retval, argVars, from, iterator, drgepVars,
                outVars, auxVars, dense, reference, returned>>

\* an exception leaves DRG::run
dfsThrow(e, a, st) ==
    /\ pc' = "dfsThrown"
    /\ exc' = e
    /\ container' = destroyStack(a, st)
    /\ stack' = <<>>

\* the loop over sources of DRG::run, up to the first two statements of
\* checkAchievables
dfsSources ==
    /\ pc = "dfsSources"
    /\ IF i >= Len(sources)
       THEN /\ pc' = "dfsReturned"
            /\ UNCHANGED <<i, exc, drgVars, container>>
       ELSE LET source == At(sources, i) IN
            IF source > N
            THEN dfsThrow("invalid_argument", container, stack) /\ UNCHANGED <<i, achievables>>
            ELSE IF source >= N
            THEN dfsThrow("out_of_range", container, stack) /\ UNCHANGED <<i, achievables>>
            ELSE IF At(achievables, source)
            THEN /\ i' = i + 1
                 /\ UNCHANGED <<pc, exc, drgVars, container>>
            ELSE \E g \in Garbage, address \in BackingAddresses :
                 LET p == dfsPush(container, stack, source, g, address) IN
                 IF p.err # "none"
                 THEN dfsThrow(p.err, p.a, p.stack) /\ UNCHANGED <<i, achievables>>
                 ELSE /\ container' = p.a
                      /\ stack' = p.stack
                      /\ achievables' = Upd(achievables, source, TRUE)
                      /\ pc' = "dfs"
                      /\ UNCHANGED <<i, exc>>
    /\ dfsFrame

\* one iteration of the for loop over the iterator on top of the stack.  When
\* ++ returns without moving the cursor and without setting stopped, the
\* next iteration is this one again: the loop repeats for ever, which shows
\* as a step that leaves the state as it is.
dfsVisit ==
    /\ pc = "dfs"
    /\ Len(stack) > 0
    /\ ~stack[Len(stack)].it.stopped
    /\ LET top == Len(stack)
           t == getTo(cols, stack[top].it)
           nxt == Increment(rows, coefs, stack[top].it)
       IN  IF t.err # "none" \/ t.val >= N
           THEN dfsThrow("out_of_range", container, stack) /\ UNCHANGED <<i, achievables>>
           ELSE IF At(achievables, t.val)
           THEN \* continue: ++iterator
                IF nxt.err # "none"
                THEN dfsThrow(nxt.err, container, stack) /\ UNCHANGED <<i, achievables>>
                ELSE /\ stack' = [stack EXCEPT ![top].it = nxt.it]
                     /\ UNCHANGED <<pc, i, exc, achievables, container>>
           ELSE \E g \in Garbage, address \in BackingAddresses :
                LET p == dfsPush(container, stack, t.val, g, address) IN
                IF p.err # "none"
                THEN /\ dfsThrow(p.err, p.a, p.stack)
                     /\ achievables' = Upd(achievables, t.val, TRUE)
                     /\ i' = i
                ELSE /\ container' = p.a
                     /\ stack' = p.stack
                     /\ achievables' = Upd(achievables, t.val, TRUE)
                     /\ UNCHANGED <<pc, i, exc>>
    /\ dfsFrame

\* the iterator on top is stopped: stack.remove(stack.getSize() - 1); the
\* pair it returns is destroyed at once
dfsPop ==
    /\ pc = "dfs"
    /\ Len(stack) > 0
    /\ stack[Len(stack)].it.stopped
    /\ container' = arenaDeallocateResult(container, stack[Len(stack)].ptr)
    /\ stack' = SubSeq(stack, 1, Len(stack) - 1)
    /\ UNCHANGED <<pc, i, exc, achievables>>
    /\ dfsFrame

\* the stack is empty: checkAchievables returns
dfsReturn ==
    /\ pc = "dfs"
    /\ Len(stack) = 0
    /\ pc' = "dfsSources"
    /\ i' = i + 1
    /\ UNCHANGED <<exc, drgVars, container>>
    /\ dfsFrame

InitDfs ==
    /\ \E d \in DenseMatrices :
         /\ rows = BuiltRows(d)
         /\ cols = BuiltCols(d, N)
         /\ coefs = BuiltCoefs(d, N)
         /\ coefs0 = BuiltCoefs(d, N)
    /\ nextRowIdx = N
    /\ finalized = TRUE
    /\ caller = "api"
    /\ pyErr = "none"
    /\ retval = "pending"
    /\ method = "none"
    /\ reducer = "DRG"
    /\ pc = "dfsSources"
    /\ threshold = 0
    /\ sources \in SourceLists
    /\ i = 0
    /\ from = N
    /\ iterator = NullIterator
    /\ achievables = AllFalse
    /\ stack = <<>>
    /\ orderedQueue = <<>>
    /\ pathsLengths = AllZero
    /\ result = AllFalse
    /\ exc = "none"
    /\ resultBitmap = <<>>
    /\ resultArray = <<>>
    /\ outOfArrayWrites = {}
    /\ finalizeCalls = 1
    /\ runs = 1
    /\ previous = NoPrevious
    /\ dense = NotAdded
    /\ container = AllocatorForInnerIterators(N)
    /\ reference = <<>>
    /\ returned = [err |-> "none", val |-> 0]

NextDfs ==
    \/ dfsSources
    \/ dfsVisit
    \/ dfsPop
    \/ dfsReturn

SpecDfs == InitDfs /\ [][NextDfs]_vars /\ WF_vars(NextDfs)

\* C35: every reducer invocation terminates: DRG's loop empties its stack
\* (and DRGEP's loop its queue), or the run ends with an error, after
\* finitely many steps.
C35_RunTerminates == <>(pc \in {"dfsReturned", "dfsThrown"})

\* C36: arena slots are not leaked during the DFS of DRG: every slot that
\* is taken for an iterator is eventually given back, the number of taken
\* slots never exceeds the capacity of the arena (so the backing allocator
\* holds nothing but the arena itself), and when checkAchievables returns
\* with an empty stack every bit of the free-slot bitmap is set again.
Taken(slot) == ~Bitmap_get(container.freeSpaceBitmap, slot).val
ArenaSlots == 0 .. N + ExtraSlots - 1
C36_SlotsNotLeaked ==
    /\ [](/\ Cardinality({slot \in ArenaSlots : Taken(slot)}) <= N + ExtraSlots
          /\ Cardinality(container.originalAllocator) <= 1
          /\ \A b \in container.originalAllocator : b[1] = container.space)
    /\ []((pc \in {"dfsSources", "dfsReturned"} \/ (pc = "dfs" /\ Len(stack) = 0))
            => \A slot \in ArenaSlots : ~Taken(slot))
    /\ \A slot \in ArenaSlots : Taken(slot) ~> ~Taken(slot)

\* C37: within one source pass of DRGEP over coefficients in [0, 1] the keys
\* paths[v] of the vertices removed from the worklist form a non-increasing
\* sequence, and the paths value of a vertex that has been removed is never
\* changed again, so updateQueue is only called for a vertex that is still
\* in the worklist.  The removed vertices are those with a non-zero paths
\* value that are not in the worklist.
Popped(c) == {v \in PassVertices : At(c.pathsLengths, v) # 0 /\ v \notin ToSet(c.orderedQueue)}
ZeroedBelow(thr) ==
    /\ Len(coefs') = Len(coefs)
    /\ \A k \in 1 .. Len(coefs) :
         coefs'[k] = coefs[k] \/ (coefs'[k] = 0 /\ coefs[k] < thr)
C38_MatrixFrame ==
    [][/\ (drgepSources \/ calcPathLengths) => UNCHANGED <<rows, cols, coefs>>
       /\ (removeEdges \/ drgSources \/ checkAchievables)
            => (UNCHANGED <<rows, cols>> /\ ZeroedBelow(threshold))]_vars
\* a DRG run has returned after zeroing a coefficient, the others being kept
C38_Witness ==
    /\ reducer = "DRG"
    /\ pc = "returned"
    /\ runs = 1
    /\ \E k \in 1 .. Len(coefs) : coefs[k] = 0 /\ coefs0[k] # 0
    /\ \E k \in 1 .. Len(coefs) : coefs[k] # 0

\* C39: finalize() takes effect once: a finalize() on a matrix that was
\* finalized before is rejected with ValueError ('Already finalized') and
\* leaves row_end unchanged, so after any number of finalize calls row_end
\* still ends with the number of stored entries, row_end[N-1] = len(col).
C39_FinalizeOnce ==
    [][(finalizeCalls >= 1 /\ finalize) =>
          /\ pyErr' = "ValueError"
          /\ rows' = rows
          /\ At(rows', N - 1) = Len(cols')]_vars

====
